---- MODULE Spec2Model ----
(***************************************************************************)
(* proxy_wasm_async_runtime: the cooperative runtime of the filter.        *)
(*                                                                         *)
(* Part 1, the shared-data lock (src/src/runtime/lock.rs): tasks of        *)
(* several single-threaded instances contend for named slots of the        *)
(* host's shared key/value store.  A TryLock poll is two host calls (a     *)
(* read, then a conditional write); between the two, other instances run.  *)
(* Inside one instance nothing interleaves with a running handler.         *)
(*                                                                         *)
(* Part 2, the Promise of an outbound call (src/src/runtime/mod.rs).       *)
(*                                                                         *)
(* Part 3, the expiring key/value store (src/src/runtime/kv_store.rs):     *)
(* values and the expirations index live in the host's shared data; every  *)
(* read-modify-write is a read and a conditional write, two host calls     *)
(* between which other instances run.                                      *)
(*                                                                         *)
(* Part 4, the counter bucket (src/src/runtime/counter_bucket.rs): a       *)
(* per-instance buffer of increments over the store, flushed by a          *)
(* background task.                                                        *)
(***************************************************************************)
EXTENDS Integers, Sequences, FiniteSets, TLC

\* ------------------------------------------------------------------ bounds
MaxData == 1
MaxInitial == 1
\* the last second of the clock
MaxTime == 2
\* update calls with an adding closure made on their own, in all
MaxUpdates == 3
\* inc calls made in all
MaxIncs == 2

Tasks == {1, 2, 3}
Instances == {1, 2}
\* one lock per protected type: the slot key and the queue registered for it
Slots == {1, 2}
DataVals == 0 .. MaxData
\* the tokens dispatch_http_call hands out, per instance
Tokens == {1, 2}
\* the keys of the store, and the ttl of a put in whole seconds
\* (Duration::as_secs): under a second, and a second
Keys == {1, 2}
Ttls == {0, 1}
\* the store calls that write (put, update, remove, enqueue_expires, gc), by
\* number, in the order they begin
CallIds == {1, 2}
\* what an adding closure adds: the value of an inc
Deltas == {1, 2}
\* the value a key holds before the updates
InitialValue == 1
\* what a hook returns: Ok(()), or Err(resp) with the status code, headers and
\* body of the response to send
HookResults ==
    { [ok |-> TRUE, code |-> 0, headers |-> 0, body |-> 0],
      [ok |-> FALSE, code |-> 1, headers |-> 1, body |-> 1] }
\* what a response callback brings: its header count (num_headers; 0 is how
\* the host reports a failed call, which has no body and no trailers), and
\* the body and the trailers the host then returns (0: none); the headers and
\* the status code are read from the host and carried in the Response
\* exactly as these are
HostResponses ==
    { [headers |-> 0, body |-> 0, trailers |-> 0],
      [headers |-> 1, body |-> 1, trailers |-> 0],
      [headers |-> 1, body |-> 0, trailers |-> 1] }

\* the instance (worker VM) a task runs in: tasks 1 and 3 in 1, task 2 in 2
InstOf(t) == IF t % 2 = 1 THEN 1 ELSE 2
\* SharedDataLock.context_id, the holder written into a Locked state
HolderOf(t) == InstOf(t)
\* SharedDataLock.queue_id: the queue register_shared_queue returned for the key
QueueOf(s) == s

NoStore == [locked |-> FALSE, holder |-> 0, cas |-> 0, data |-> 0]
NoResponse == [headers |-> 0, body |-> 0, trailers |-> 0]
\* Promise::pending and the other states of InnerPromise; waker 0 is None
NoPromise == [st |-> "None", waker |-> 0, resp |-> NoResponse]
NoEvent == [op |-> "none", t |-> 0, res |-> "none", s |-> 0, i |-> 0]
\* no Timer; pended: a poll of the Timer has returned Pending
NoTimer == [live |-> FALSE, expiry |-> 0, pended |-> FALSE]

VARIABLES
    shd,        \* host shared data: slot -> [store, cas]  (value and version)
    notif,      \* host: on_queue_ready deliveries owed, instance -> queue -> count
    queueMap,   \* QUEUE_MAP of each instance: queue -> sequence of parked wakers
    readyQ,     \* executor of each instance: tasks woken, awaiting the next tick
    run,        \* executor of each instance: what is left of the running drain pass
    pc,         \* task -> position
    tslot,      \* task -> the slot of the lock it called lock() on
    tstore,     \* task -> the Store it read (and, later, its guard's Store)
    aborted,    \* instance -> it panicked
    ninit,      \* calls of initial() made so far
    tries,      \* task -> polls of its TryLock begun so far
    prom,       \* task -> the Promise its http_call returned (InnerPromise)
    pendings,   \* PENDINGS of each instance: token -> the task whose Promise it is, or 0
    tres,       \* task -> what its last poll of its Promise returned
    ttoken,     \* task -> the token the host gave its http_call (0: none)
    term,       \* task -> the terminal actions invoked for its request, in order
    ev,         \* the last step taken and its result
    timer,      \* task -> the Timer its sleep() returned, while it awaits it
    kvd,        \* host shared data under the store's prefix: key -> [val, cas];
                \* val 0: no value, cas 0: never written
    exps,       \* host shared data "<prefix>:expirations": [list, cas], the
                \* list of <<expiry, key>> the stored Expirations decodes to
    clock,      \* SystemTime, in seconds
    kop,        \* instance -> the store call it is in, and where
    nops,       \* store calls that write, begun so far
    kev,        \* the last step of the store and its result
    kput,       \* key -> the last put of it that returned Ok: [id, exp]
    swept,      \* the puts (by id) that expired before a put or update call
                \* began which has returned Ok since
    applied,    \* key -> the sum of what the adding closures of the update calls
                \* that returned Ok added
    buffer,     \* Inner.buffer of the bucket of each instance: key -> delta (0: no entry)
    stop,       \* Inner.stop of the bucket of each instance
    bev,        \* the last call of a bucket and its result
    bk          \* the bucket of each instance: the flush in progress (pc, by,
                \* drained, len), the background task (task, expiry), the live
                \* handles, and history: incs made,
                \* what they gave each key, what of it no flush has drained,
                \* and the flushes the task made after stop was set

coreVars == <<shd, notif, queueMap, readyQ, run, pc, tslot, tstore, aborted, ninit,
              tries, prom, pendings, tres, ttoken, term, ev, timer>>
kvVars == <<kvd, exps, clock, kop, nops, kev, kput, swept>>
bucketVars == <<applied, buffer, stop, bev, bk>>
vars == <<coreVars, kvVars, bucketVars>>

\* ------------------------------------------------------------ Store<T>
\* Store::new
StoreNew(data) == [locked |-> FALSE, holder |-> 0, cas |-> 0, data |-> data]

\* (mutant) the lock state records no version, so the write that takes the
\* lock is unconditional
turn_lock_no_cas(store, holder, cas) ==
    [store EXCEPT !.locked = TRUE, !.holder = holder, !.cas = 0]

\* (mutant) the guard is given a fresh value, not the one read from the slot
turn_lock_fresh(store, holder, cas) ==
    [store EXCEPT !.locked = TRUE, !.holder = holder, !.cas = cas, !.data = 0]

\* Store::turn_lock (the time field is written and never read: left out)
turn_lock(store, holder, cas) ==
    [store EXCEPT !.locked = TRUE, !.holder = holder, !.cas = cas]

\* (mutant) the state written back at release is still Locked
turn_unlock_keeps(store) == store

\* Store::turn_unlock
turn_unlock(store) == [store EXCEPT !.locked = FALSE, !.holder = 0, !.cas = 0]

\* Store::is_locked
is_locked(store) == store.locked

\* ------------------------------------------------------------ the host
\* hostcalls::set_shared_data(key, value, cas): a version of None writes
\* unconditionally, otherwise the write is rejected unless cas is the slot's
\* version; every accepted write gives the slot its next version.
HostSetOk(s, cas) == cas = 0 \/ cas = shd[s].cas
HostSet(s, store) == [shd EXCEPT ![s] = [store |-> store, cas |-> shd[s].cas + 1]]

\* hostcalls::enqueue_shared_queue: on_queue_ready is owed to every instance
HostEnqueue(q) == [i \in Instances |-> [notif[i] EXCEPT ![q] = @ + 1]]

\* ------------------------------------------------------------ QueueMap
\* QueueMap::push_task
push_task(i, q, t) == [queueMap EXCEPT ![i][q] = Append(@, t)]

\* Waker::wake of the executor: the task is queued unless it is queued already
RECURSIVE WakeAll(_, _)
WakeAll(ready, wakers) ==
    IF wakers = <<>> THEN ready
    ELSE LET t == Head(wakers)
             r == IF \E k \in 1 .. Len(ready) : ready[k] = t THEN ready
                  ELSE Append(ready, t)
         IN  WakeAll(r, Tail(wakers))

\* ------------------------------------------------------------ helpers
Idle(i) == ~aborted[i] /\ run[i] = <<>>
Running(t) == ~aborted[InstOf(t)] /\ run[InstOf(t)] # <<>> /\ Head(run[InstOf(t)]) = t
\* the poll of t returned: the drain pass goes on with the next task
PollReturns(t) == [run EXCEPT ![InstOf(t)] = Tail(@)]
Event(op, t, res) == [op |-> op, t |-> t, res |-> res, s |-> tslot[t], i |-> InstOf(t)]

\* Expirations::new and an empty store: nothing written, no call in progress
NoOp == [pc |-> "idle", op |-> "none", key |-> 0, ttl |-> 0, val |-> 0, new |-> <<>>,
         cas |-> 0, exp |-> 0, expired |-> <<>>, after |-> {}, alone |-> FALSE, d |-> 0]
NoKvEvent == [op |-> "none", key |-> 0, val |-> 0, res |-> "none", alone |-> FALSE]
NoPut == [id |-> 0, exp |-> 0]
KvInit ==
    /\ kvd = [k \in Keys |-> [val |-> 0, cas |-> 0]]
    /\ exps = [list |-> <<>>, cas |-> 0]
    /\ clock = 0
    /\ kop = [i \in Instances |-> NoOp]
    /\ nops = 0
    /\ kev = NoKvEvent
    /\ kput = [k \in Keys |-> NoPut]
    /\ swept = {}

\* CounterBucket::new: an empty buffer, stop unset
NoBucket == [pc |-> "idle", by |-> "none", drained |-> <<>>, len |-> 0,
             task |-> "sleeping", expiry |-> 1, handles |-> 1, incs |-> 0,
             given |-> [k \in Keys |-> 0], unflushed |-> [k \in Keys |-> 0],
             stopped |-> FALSE, flushes |-> 0]
NoBucketEvent == [op |-> "none", i |-> 0, key |-> 0, val |-> 0]
BucketInit ==
    /\ applied = [k \in Keys |-> 0]
    /\ buffer = [i \in Instances |-> [k \in Keys |-> 0]]
    /\ stop = [i \in Instances |-> FALSE]
    /\ bev = NoBucketEvent
    /\ bk = [i \in Instances |-> NoBucket]

\* what is the same in every initial state: nothing queued, nothing parked
InitCore ==
    /\ notif = [i \in Instances |-> [q \in Slots |-> 0]]
    /\ queueMap = [i \in Instances |-> [q \in Slots |-> <<>>]]
    /\ readyQ = [i \in Instances |-> <<>>]
    /\ run = [i \in Instances |-> <<>>]
    /\ tslot = [t \in Tasks |-> 1]
    /\ tstore = [t \in Tasks |-> NoStore]
    /\ aborted = [i \in Instances |-> FALSE]
    /\ ninit = 0
    /\ tries = [t \in Tasks |-> 0]
    /\ prom = [t \in Tasks |-> NoPromise]
    /\ pendings = [i \in Instances |-> [k \in Tokens |-> 0]]
    /\ tres = [t \in Tasks |-> [kind |-> "none", resp |-> NoResponse]]
    /\ ttoken = [t \in Tasks |-> 0]
    /\ term = [t \in Tasks |-> <<>>]
    /\ ev = NoEvent
    /\ timer = [t \in Tasks |-> NoTimer]

\* ... and nothing in the store, no bucket in use
InitRest == InitCore /\ KvInit /\ BucketInit

\* every slot initialised (SharedDataLock::initial, at version 1) and Unlocked,
\* no request made yet
Init ==
    /\ shd = [s \in Slots |-> [store |-> StoreNew(0), cas |-> 1]]
    /\ pc = [t \in Tasks |-> "new"]
    /\ InitRest

\* --------------------------------------------------------- the executor
\* (mutant) spawn polls the task at once, before it returns
SpawnRunsNow(t) ==
    /\ pc[t] = "new"
    /\ Idle(InstOf(t))
    /\ \E s \in Slots : tslot' = [tslot EXCEPT ![t] = s]
    /\ pc' = [pc EXCEPT ![t] = "ready"]
    /\ run' = [run EXCEPT ![InstOf(t)] = Append(@, t)]
    /\ ev' = [op |-> "spawn", t |-> t, res |-> "none", s |-> tslot'[t], i |-> InstOf(t)]
    /\ UNCHANGED <<shd, notif, queueMap, readyQ, tstore, aborted, ninit, tries, prom, pendings, tres, ttoken, term, timer, kvVars, bucketVars>>

\* HookHolder::on_http_request_headers -> spawn_local: the task is queued, not
\* polled; its body awaits lock() on one of the locks.
Spawn(t) ==
    /\ pc[t] = "new"
    /\ Idle(InstOf(t))
    /\ \E s \in Slots : tslot' = [tslot EXCEPT ![t] = s]
    /\ pc' = [pc EXCEPT ![t] = "ready"]
    /\ readyQ' = [readyQ EXCEPT ![InstOf(t)] = Append(@, t)]
    /\ ev' = [op |-> "spawn", t |-> t, res |-> "none", s |-> tslot'[t], i |-> InstOf(t)]
    /\ UNCHANGED <<shd, notif, queueMap, run, tstore, aborted, ninit, tries, prom, pendings, tres, ttoken, term, timer, kvVars, bucketVars>>

\* (mutant) the drain pass leaves the ready queue as it was
OnTickKeeps(i) ==
    /\ Idle(i)
    /\ readyQ[i] # <<>>
    /\ run' = [run EXCEPT ![i] = readyQ[i]]
    /\ ev' = [op |-> "tick", t |-> 0, res |-> "none", s |-> 0, i |-> i]
    /\ UNCHANGED <<shd, notif, queueMap, readyQ, pc, tslot, tstore, aborted, ninit, tries, prom, pendings, tres, ttoken, term, timer, kvVars, bucketVars>>

\* RuntimeBox::on_tick -> QUEUE.on_tick: the ready tasks are taken as one drain
\* pass; each is then polled once, in order.
OnTick(i) ==
    /\ Idle(i)
    /\ readyQ[i] # <<>>
    /\ run' = [run EXCEPT ![i] = readyQ[i]]
    /\ readyQ' = [readyQ EXCEPT ![i] = <<>>]
    /\ ev' = [op |-> "tick", t |-> 0, res |-> "none", s |-> 0, i |-> i]
    /\ UNCHANGED <<shd, notif, queueMap, pc, tslot, tstore, aborted, ninit, tries, prom, pendings, tres, ttoken, term, timer, kvVars, bucketVars>>

\* ------------------------------------------------------- TryLock::poll
\* (mutant) what was read is not checked for a missing version or value
get_and_lock_read_unchecked(cur) ==
    IF is_locked(cur.store) THEN "Locked"
    ELSE "Unlocked"

\* get_and_lock_shared_data, what it makes of what it read: a slot that was
\* never written has neither version nor value (the host returns None for
\* both), which is Err(Status) ("missing CAS value"); a Locked store is
\* Err(Locked)
get_and_lock_read(cur) ==
    IF cur.cas = 0 THEN "Status"
    ELSE IF is_locked(cur.store) THEN "Locked"
    ELSE "Unlocked"

\* First half of get_and_lock_shared_data, the read succeeding: a slot never
\* written is Err(Status), with which TryLock::poll is gone and returns
\* Ready(Err); a Locked store
\* is Err(Locked), which TryLock::poll turns into push_task and Poll::Pending;
\* an Unlocked one is turned Locked with the version read, ready to be written.
PollRead(t) ==
    /\ Running(t)
    /\ pc[t] = "ready"
    /\ LET s == tslot[t]
           cur == shd[s]
       IN  IF get_and_lock_read(cur) = "Status"
           THEN /\ pc' = [pc EXCEPT ![t] = "failed"]
                /\ run' = PollReturns(t)
                /\ ev' = Event("poll", t, "Status")
                /\ UNCHANGED <<queueMap, tstore>>
           ELSE IF get_and_lock_read(cur) = "Locked"
           THEN /\ queueMap' = push_task(InstOf(t), QueueOf(s), t)
                /\ pc' = [pc EXCEPT ![t] = "parked"]
                /\ run' = PollReturns(t)
                /\ ev' = Event("poll", t, "Locked")
                /\ UNCHANGED tstore
           ELSE /\ tstore' = [tstore EXCEPT ![t] = turn_lock(cur.store, HolderOf(t), cur.cas)]
                /\ pc' = [pc EXCEPT ![t] = "write"]
                /\ ev' = Event("read", t, "Unlocked")
                /\ UNCHANGED <<queueMap, run>>
    /\ tries' = [tries EXCEPT ![t] = @ + 1]
    /\ UNCHANGED <<shd, notif, readyQ, tslot, aborted, ninit, prom, pendings, tres, ttoken, term, timer, kvVars, bucketVars>>

\* The read failing with a host status: get_and_lock_shared_data returns
\* Err(Status), TryLock::poll is gone and returns Ready(Err).
PollReadFault(t) ==
    /\ Running(t)
    /\ pc[t] = "ready"
    /\ pc' = [pc EXCEPT ![t] = "failed"]
    /\ run' = PollReturns(t)
    /\ ev' = Event("poll", t, "Status")
    /\ tries' = [tries EXCEPT ![t] = @ + 1]
    /\ UNCHANGED <<shd, notif, queueMap, readyQ, tslot, tstore, aborted, ninit, prom, pendings, tres, ttoken, term, timer, kvVars, bucketVars>>

\* (mutant) a rejected write is retried within the same poll
PollWriteRetries(t) ==
    /\ Running(t)
    /\ pc[t] = "write"
    /\ LET s == tslot[t]
       IN  IF HostSetOk(s, tstore[t].cas)
           THEN /\ shd' = HostSet(s, tstore[t])
                /\ pc' = [pc EXCEPT ![t] = "holding"]
                /\ ev' = Event("poll", t, "Guard")
                /\ UNCHANGED tstore
           ELSE /\ pc' = [pc EXCEPT ![t] = "ready"]
                /\ tstore' = [tstore EXCEPT ![t] = NoStore]
                /\ ev' = Event("poll", t, "CasMismatch")
                /\ UNCHANGED shd
    /\ UNCHANGED <<notif, queueMap, run, readyQ, tslot, aborted, ninit, tries, prom, pendings, tres, ttoken, term, timer, kvVars, bucketVars>>

\* Second half of get_and_lock_shared_data: the write conditioned on the
\* version read.  Accepted: the poll returns the guard, and the task goes on
\* running with it.  Rejected (CasMismatch): push_task and Poll::Pending.
PollWrite(t) ==
    /\ Running(t)
    /\ pc[t] = "write"
    /\ LET s == tslot[t]
       IN  IF HostSetOk(s, tstore[t].cas)
           THEN /\ shd' = HostSet(s, tstore[t])
                /\ pc' = [pc EXCEPT ![t] = "holding"]
                /\ ev' = Event("poll", t, "Guard")
                /\ UNCHANGED <<queueMap, run, tstore>>
           ELSE /\ queueMap' = push_task(InstOf(t), QueueOf(s), t)
                /\ pc' = [pc EXCEPT ![t] = "parked"]
                /\ tstore' = [tstore EXCEPT ![t] = NoStore]
                /\ run' = PollReturns(t)
                /\ ev' = Event("poll", t, "CasMismatch")
                /\ UNCHANGED shd
    /\ UNCHANGED <<notif, readyQ, tslot, aborted, ninit, tries, prom, pendings, tres, ttoken, term, timer, kvVars, bucketVars>>

\* (mutant) every failed write is taken for a lost race: the task parks
PollWriteFaultParks(t) ==
    /\ Running(t)
    /\ pc[t] = "write"
    /\ queueMap' = push_task(InstOf(t), QueueOf(tslot[t]), t)
    /\ pc' = [pc EXCEPT ![t] = "parked"]
    /\ tstore' = [tstore EXCEPT ![t] = NoStore]
    /\ run' = PollReturns(t)
    /\ ev' = Event("poll", t, "Status")
    /\ UNCHANGED <<shd, notif, readyQ, tslot, aborted, ninit, tries, prom, pendings, tres, ttoken, term, timer, kvVars, bucketVars>>

\* The write failing with a host status other than CasMismatch.
PollWriteFault(t) ==
    /\ Running(t)
    /\ pc[t] = "write"
    /\ pc' = [pc EXCEPT ![t] = "failed"]
    /\ tstore' = [tstore EXCEPT ![t] = NoStore]
    /\ run' = PollReturns(t)
    /\ ev' = Event("poll", t, "Status")
    /\ UNCHANGED <<shd, notif, queueMap, readyQ, tslot, aborted, ninit, tries, prom, pendings, tres, ttoken, term, timer, kvVars, bucketVars>>

\* ------------------------------------------------------- the guard
\* DerefMut: the holder changes the protected value in its guard's Store.
Modify(t) ==
    /\ Running(t)
    /\ pc[t] = "holding"
    /\ \E d \in DataVals \ {tstore[t].data} :
           tstore' = [tstore EXCEPT ![t].data = d]
    /\ ev' = Event("modify", t, "none")
    /\ UNCHANGED <<shd, notif, queueMap, readyQ, run, pc, tslot, aborted, ninit, tries, prom, pendings, tres, ttoken, term, timer, kvVars, bucketVars>>

\* The holder awaits a timer with the guard alive (chain/btc.rs): Timer::poll
\* wakes the task at once and returns Pending, so the task is polled again on
\* a later tick.
Yield(t) ==
    /\ Running(t)
    /\ pc[t] = "holding"
    /\ run' = PollReturns(t)
    /\ readyQ' = [readyQ EXCEPT ![InstOf(t)] = WakeAll(@, <<t>>)]
    /\ ev' = Event("yield", t, "none")
    /\ UNCHANGED <<shd, notif, queueMap, pc, tslot, tstore, aborted, ninit, tries, prom, pendings, tres, ttoken, term, timer, kvVars, bucketVars>>

\* set_and_unlock_shared_data, as a function of the host's answers:
\* what it returns ("Noop", "Ok", "CasMismatch", "Status")
set_and_unlock_result(s, store, setFault, enqueueFault) ==
    IF ~store.locked THEN "Noop"
    ELSE IF setFault THEN "Status"
    ELSE IF ~HostSetOk(s, store.cas + 1) THEN "CasMismatch"
    ELSE IF enqueueFault THEN "Status"
    ELSE "Ok"

\* (mutant) the write of the release presents no version
set_and_unlock_writes_unconditional(s, store, setFault) ==
    store.locked /\ ~setFault

\* whether set_and_unlock_shared_data wrote the slot
set_and_unlock_writes(s, store, setFault) ==
    store.locked /\ ~setFault /\ HostSetOk(s, store.cas + 1)

\* SharedDataLockGuard::drop: set_and_unlock_shared_data(..).expect(..).
\* The task's poll ends here (the guard is dropped as the task finishes); an
\* Err panics, which ends the instance.
Drop(t, setFault, enqueueFault) ==
    /\ Running(t)
    /\ pc[t] = "holding"
    /\ LET s == tslot[t]
           i == InstOf(t)
           res == set_and_unlock_result(s, tstore[t], setFault, enqueueFault)
       IN  /\ shd' = IF set_and_unlock_writes(s, tstore[t], setFault)
                     THEN HostSet(s, turn_unlock(tstore[t])) ELSE shd
           /\ notif' = IF res = "Ok" THEN HostEnqueue(QueueOf(s)) ELSE notif
           /\ IF res \in {"Ok", "Noop"}
              THEN /\ pc' = [pc EXCEPT ![t] = "done"]
                   /\ run' = PollReturns(t)
                   /\ UNCHANGED aborted
              ELSE /\ pc' = [pc EXCEPT ![t] = "dead"]
                   /\ aborted' = [aborted EXCEPT ![i] = TRUE]
                   /\ UNCHANGED run
           /\ ev' = Event("release", t, res)
    /\ tstore' = [tstore EXCEPT ![t] = NoStore]
    /\ UNCHANGED <<queueMap, readyQ, tslot, ninit, tries, prom, pendings, tres, ttoken, term, timer, kvVars, bucketVars>>

Release(t) == Drop(t, FALSE, FALSE)
ReleaseSetFault(t) == Drop(t, TRUE, FALSE)
ReleaseEnqueueFault(t) == Drop(t, FALSE, TRUE)

\* ------------------------------------------------------- the queue
\* (mutant) pop_front in place of drain: only the first waker is taken and woken
wake_tasks_front(i, q) ==
    [woken |-> IF queueMap[i][q] = <<>> THEN <<>> ELSE <<Head(queueMap[i][q])>>,
     tasks |-> [queueMap EXCEPT ![i][q] = IF @ = <<>> THEN <<>> ELSE Tail(@)]]

\* QueueMap::wake_tasks: the wakers parked on the queue are drained, each is
\* woken; "woken" are the wakers invoked, "tasks" is the map left
wake_tasks(i, q) ==
    [woken |-> queueMap[i][q], tasks |-> [queueMap EXCEPT ![i][q] = <<>>]]

\* RuntimeBox::on_queue_ready(queue_id) -> wake_tasks(QueueId(queue_id))
OnQueueReady(i, q) ==
    /\ Idle(i)
    /\ notif[i][q] > 0
    /\ notif' = [notif EXCEPT ![i][q] = @ - 1]
    /\ LET w == wake_tasks(i, q)
       IN  /\ readyQ' = [readyQ EXCEPT ![i] = WakeAll(@, w.woken)]
           /\ pc' = [t \in Tasks |->
                       IF \E k \in 1 .. Len(w.woken) : w.woken[k] = t
                       THEN "ready" ELSE pc[t]]
           /\ queueMap' = w.tasks
    /\ ev' = [op |-> "queue_ready", t |-> 0, res |-> "none", s |-> q, i |-> i]
    /\ UNCHANGED <<shd, run, tslot, tstore, aborted, ninit, tries, prom, pendings, tres, ttoken, term, timer, kvVars, bucketVars>>

\* SharedDataLock::initial(data): an unconditional write of a fresh,
\* Unlocked Store; every instance does it as it builds its lock, with the
\* empty value (chain/btc.rs)
Initial(i, s) ==
    /\ Idle(i)
    /\ ninit < MaxInitial
    /\ ninit' = ninit + 1
    /\ shd' = HostSet(s, StoreNew(0))
    /\ ev' = [op |-> "initial", t |-> 0, res |-> "none", s |-> s, i |-> i]
    /\ UNCHANGED <<notif, queueMap, readyQ, run, pc, tslot, tstore, aborted, tries, prom, pendings, tres, ttoken, term, timer, kvVars, bucketVars>>

\* ------------------------------------------------------- specifications
LockStep ==
    \/ \E t \in Tasks : Spawn(t)
    \/ \E i \in Instances : OnTick(i)
    \/ \E t \in Tasks : PollRead(t)
    \/ \E t \in Tasks : PollWrite(t)
    \/ \E t \in Tasks : Modify(t)
    \/ \E t \in Tasks : Yield(t)
    \/ \E t \in Tasks : Release(t)
    \/ \E i \in Instances, q \in Slots : OnQueueReady(i, q)

LockFault ==
    \/ \E t \in Tasks : PollReadFault(t)
    \/ \E t \in Tasks : PollWriteFault(t)
    \/ \E t \in Tasks : ReleaseSetFault(t)
    \/ \E t \in Tasks : ReleaseEnqueueFault(t)

\* lock() polls and guard releases of any task of any instance, the host
\* free to fail any call
NextLock == LockStep \/ LockFault
SpecLock == Init /\ [][NextLock]_vars

\* the same, with instances that call initial() at any time (an instance
\* that starts late builds its lock, and initialises the slot, while the
\* others are running)
NextLockInit == LockStep \/ \E i \in Instances, s \in Slots : Initial(i, s)
SpecLockInit == Init /\ [][NextLockInit]_vars

\* Scheduling.  The host delivers the callbacks it owes to an instance that is
\* free (ticks keep coming, queue notifications arrive); a poll that has read
\* goes on to its write; a guard is dropped at some poll of its holder (its
\* scope ends), however often the holder is suspended with it.
LockFairness ==
    /\ \A i \in Instances : WF_vars(OnTick(i))
    /\ \A i \in Instances, q \in Slots : WF_vars(OnQueueReady(i, q))
    /\ \A t \in Tasks : WF_vars(PollRead(t)) /\ WF_vars(PollWrite(t))
    /\ \A t \in Tasks : SF_vars(Release(t))

\* The tasks of the scheduling scenarios only read the protected value.
LiveStep ==
    \/ \E t \in Tasks : Spawn(t)
    \/ \E i \in Instances : OnTick(i)
    \/ \E t \in Tasks : PollRead(t)
    \/ \E t \in Tasks : PollWrite(t)
    \/ \E t \in Tasks : Yield(t)
    \/ \E t \in Tasks : Release(t)
    \/ \E i \in Instances, q \in Slots : OnQueueReady(i, q)

\* Slot 2 may have been left Locked by a holder whose instance ended without
\* dropping its guard (holder 9, no instance of the model): tasks that contend
\* for it stay parked.
InitLive ==
    /\ InitRest
    /\ pc = [t \in Tasks |-> "new"]
    /\ \E b \in BOOLEAN :
          shd = [s \in Slots |->
                   [store |-> IF b /\ s = 2 THEN turn_lock(StoreNew(0), 9, 1)
                              ELSE StoreNew(0),
                    cas |-> IF b /\ s = 2 THEN 2 ELSE 1]]
SpecLockLive == InitLive /\ [][LiveStep]_vars /\ LockFairness

\* Two contenders: one of the three tasks never makes a request.
InitTwo ==
    /\ shd = [s \in Slots |-> [store |-> StoreNew(0), cas |-> 1]]
    /\ \E o \in Tasks : pc = [t \in Tasks |-> IF t = o THEN "off" ELSE "new"]
    /\ InitRest
SpecTwo == InitTwo /\ [][LiveStep]_vars /\ LockFairness

\* ======================================================= the lock: claims
InSeq(t, q) == \E k \in 1 .. Len(q) : q[k] = t
\* the tasks that hold a guard of slot s
Guards(s) == {t \in Tasks : pc[t] = "holding" /\ tslot[t] = s}
\* the slot is Locked with the lock state task t's guard wrote
SlotLockedBy(t) ==
    LET st == shd[tslot[t]].store
    IN  st.locked /\ st.holder = tstore[t].holder /\ st.cas = tstore[t].cas
\* this step is the end of a guard of task t (its drop)
Dropped(t) == pc[t] = "holding" /\ pc'[t] # "holding"
\* this step ends a poll of t without a guard, the task parked on its queue
Parks(t) ==
    LET i == InstOf(t)
        q == QueueOf(tslot[t])
    IN  /\ pc'[t] = "parked"
        /\ queueMap'[i][q] = Append(queueMap[i][q], t)
        /\ run'[i] = Tail(run[i])
        /\ ~InSeq(t, readyQ'[i])
        /\ shd' = shd

\* C1: whatever the interleaving of lock() polls and guard releases of the
\* tasks of all instances (the host failing calls at will), no slot ever has
\* two live guards.
C1_MutualExclusion == \A s \in Slots : Cardinality(Guards(s)) <= 1

\* a task holds the guard and another has just lost the race for the same slot
C1_Witness ==
    \E t, u \in Tasks :
        /\ t # u /\ tslot[t] = tslot[u] /\ InstOf(t) # InstOf(u)
        /\ pc[t] = "holding"
        /\ ev = Event("poll", u, "CasMismatch")

\* C2: of two contenders A and B of one slot, B polling while A holds the
\* guard parks; B leaves its queue only by the queue notification; a task
\* parks at its first poll only, so the poll that follows its wake-up returns
\* the guard; and B, parked behind A, does get the guard once A has dropped
\* its own.
C2_SecondContenderGetsGuard ==
    /\ [][\A A, B \in Tasks :
            (A # B /\ tslot[A] = tslot[B]) =>
              /\ (pc[A] = "holding" /\ pc[B] = "ready" /\ pc'[B] # "ready")
                    => Parks(B)
              /\ (pc[B] = "parked" /\ pc'[B] # "parked")
                    => (ev'.op = "queue_ready" /\ pc'[B] = "ready")
              /\ (pc[A] = "done" /\ pc[B] = "ready" /\ pc'[B] # "ready")
                    => pc'[B] = "write"]_vars
    /\ [](\A B \in Tasks : /\ (pc[B] = "parked" => tries[B] = 1)
                            /\ (pc[B] = "holding" => tries[B] <= 2))
    /\ \A B \in Tasks :
          (pc[B] = "parked" /\ Guards(tslot[B]) # {})
             ~> (pc[B] = "holding" /\ \E A \in Tasks \ {B} : pc[A] = "done")

\* B holds the guard after having been parked behind A, who is done
C2_Witness ==
    \E A, B \in Tasks :
        /\ A # B /\ tslot[A] = tslot[B]
        /\ pc[A] = "done" /\ ev = Event("poll", B, "Guard")
        /\ tries[B] = 2
        /\ \A i \in Instances : notif[i][QueueOf(tslot[B])] = 0

\* C3 as stated: a release leaves the slot Unlocked at the version recorded
\* at acquisition plus one, and versions never decrease.
C3_ReleaseVersionPlusOne ==
    [][/\ \A t \in Tasks : Dropped(t) =>
              /\ ~shd'[tslot[t]].store.locked
              /\ shd'[tslot[t]].cas = tstore[t].cas + 1
       /\ \A s \in Slots : shd'[s].cas >= shd[s].cas]_vars

\* C3 (amended): a release whose write the host accepts leaves the slot
\* Unlocked at the version read at acquisition plus two: the write that took
\* the lock made it cas + 1, which is the version the release presents, and
\* the release's write makes it cas + 2.  A release whose write fails leaves
\* the slot as it was.  Versions never decrease.
C3_ReleaseVersionPlusTwo ==
    [][/\ \A t \in Tasks : Dropped(t) =>
              IF ev'.res = "Status" /\ shd' = shd
              THEN SlotLockedBy(t)
              ELSE /\ ~shd'[tslot[t]].store.locked
                   /\ shd'[tslot[t]].cas = tstore[t].cas + 2
                   /\ shd'[tslot[t]].cas = shd[tslot[t]].cas + 1
       /\ \A s \in Slots : shd'[s].cas >= shd[s].cas]_vars

\* a guard has just been released and the slot is Unlocked, two versions on
C3_Witness ==
    /\ ev.op = "release" /\ ev.res = "Ok"
    /\ ~shd[ev.s].store.locked
    /\ shd[ev.s].cas >= 3

\* C4: a poll that reads a Locked slot, or whose conditional write the host
\* rejects with a version mismatch, parks the task on the lock's queue and
\* returns not-ready: no error, no second attempt in that poll.
C4_ContentionParks ==
    [][\A t \in Tasks :
          LET s == tslot[t]
              readLocked == /\ pc[t] = "ready" /\ pc'[t] # "ready"
                            /\ ev'.res # "Status"
                            /\ is_locked(shd[s].store)
              mismatch == /\ pc[t] = "write" /\ pc'[t] # "write"
                          /\ ev'.res # "Status"
                          /\ shd[s].cas # tstore[t].cas
          IN  (readLocked \/ mismatch) => Parks(t)]_vars

\* a task has just parked on a version mismatch, behind a holder
C4_Witness ==
    \E t \in Tasks :
        /\ ev = Event("poll", t, "CasMismatch")
        /\ pc[t] = "parked"
        /\ InSeq(t, queueMap[InstOf(t)][QueueOf(tslot[t])])
        /\ Guards(tslot[t]) # {}

\* C5: a poll whose read or conditional write fails with a host status other
\* than a version mismatch returns ready with the error: the task is not
\* parked, the slot is not written, and the acquisition is never taken up again.
C5_HostStatusIsTerminal ==
    [][\A t \in Tasks :
          LET i == InstOf(t)
              failedCall == /\ pc[t] \in {"ready", "write"} /\ pc'[t] # pc[t]
                            /\ ev'.res = "Status"
          IN  /\ failedCall =>
                    /\ pc'[t] = "failed"
                    /\ queueMap' = queueMap
                    /\ shd' = shd
                    /\ run'[i] = Tail(run[i])
                    /\ ~InSeq(t, readyQ'[i])
              /\ pc[t] = "failed" =>
                    /\ pc'[t] = "failed"
                    /\ ~InSeq(t, readyQ'[i]) /\ ~InSeq(t, run'[i])
                    /\ \A q \in Slots : ~InSeq(t, queueMap'[i][q])]_vars

\* a conditional write has just failed with a host status, the slot untouched
C5_Witness ==
    \E t \in Tasks :
        /\ ev = Event("poll", t, "Status")
        /\ pc[t] = "failed"
        /\ ~shd[tslot[t]].store.locked
        /\ \E u \in Tasks \ {t} : pc[u] = "done"

\* C6: a successful release owes every instance a notification of the lock's
\* queue; its delivery to an instance wakes every task parked on that queue
\* there and leaves the queue's waker list empty, the wakers of the other
\* queues and the tasks not parked on it left alone; and every task parked on
\* a queue that has a notification coming is polled again.
C6_ReleaseWakesTheQueue ==
    /\ [][\A t \in Tasks : (Dropped(t) /\ ev'.res = "Ok") =>
              \A i \in Instances :
                  notif'[i][QueueOf(tslot[t])] = notif[i][QueueOf(tslot[t])] + 1]_vars
    /\ [][\A i \in Instances, q \in Slots : notif'[i][q] < notif[i][q] =>
              /\ queueMap'[i][q] = <<>>
              /\ \A t \in Tasks : InSeq(t, queueMap[i][q]) =>
                      (pc'[t] = "ready" /\ InSeq(t, readyQ'[i]))
              /\ \A t \in Tasks : ~InSeq(t, queueMap[i][q]) =>
                      (pc'[t] = pc[t] /\ (InSeq(t, readyQ'[i]) <=> InSeq(t, readyQ[i])))
              /\ \A j \in Instances, r \in Slots :
                      (j # i \/ r # q) => queueMap'[j][r] = queueMap[j][r]]_vars
    /\ \A t \in Tasks :
          (pc[t] = "parked" /\ notif[InstOf(t)][QueueOf(tslot[t])] > 0)
             ~> (ev.t = t /\ ev.op \in {"poll", "read"})

\* a notification has just woken a task parked on its queue, the queue is
\* empty, and a task parked on the other queue of the instance is still parked
C6_Witness ==
    \E t, u \in Tasks :
        /\ ev.op = "queue_ready" /\ ev.i = InstOf(t) /\ ev.s = QueueOf(tslot[t])
        /\ pc[t] = "ready" /\ InSeq(t, readyQ[ev.i])
        /\ queueMap[ev.i][ev.s] = <<>>
        /\ InstOf(u) = ev.i /\ tslot[u] # tslot[t]
        /\ pc[u] = "parked" /\ InSeq(u, queueMap[ev.i][QueueOf(tslot[u])])

\* C7: a guard dropped while the slot is no longer Locked by its holder
\* writes nothing, notifies nobody and does not abort the instance.
C7_ReleaseOfLostLockIsNoop ==
    [][\A t \in Tasks :
          (Dropped(t) /\ ~SlotLockedBy(t)) =>
              /\ shd' = shd
              /\ notif' = notif
              /\ ~aborted'[InstOf(t)]]_vars

\* ================================================================ Promise
\* Promise::pending
PromisePending == [st |-> "Pending", waker |-> 0, resp |-> NoResponse]

\* (mutant) the Response is built without the trailers
resolve_no_trailers(p, response) ==
    [state |-> [st |-> "Resolved", waker |-> 0,
                resp |-> [response EXCEPT !.trailers = 0]],
     wake |-> IF p.st = "Pending" THEN p.waker ELSE 0]

\* Promise::resolve: the state is replaced, whatever it was; "wake" is the
\* waker invoked (0: none), the one a Pending state had recorded
resolve(p, response) ==
    [state |-> [st |-> "Resolved", waker |-> 0, resp |-> response],
     wake |-> IF p.st = "Pending" THEN p.waker ELSE 0]

\* Promise::reject: the state is replaced; no waker is invoked
reject(p) ==
    [state |-> [st |-> "Rejected", waker |-> 0, resp |-> NoResponse], wake |-> 0]

\* (mutant) every poll of a Pending Promise records the poller's waker
promise_poll_overwrites(p, w) ==
    CASE p.st = "Pending" ->
           [state |-> [p EXCEPT !.waker = w], res |-> "Pending", resp |-> NoResponse]
      [] p.st = "Rejected" -> [state |-> p, res |-> "Err", resp |-> NoResponse]
      [] p.st = "Resolved" ->
           [state |-> [st |-> "Gone", waker |-> 0, resp |-> NoResponse],
            res |-> "Ok", resp |-> p.resp]
      [] OTHER -> [state |-> p, res |-> "Panic", resp |-> NoResponse]

\* (mutant) a Resolved Promise hands out its response and stays Resolved
promise_poll_keeps(p, w) ==
    CASE p.st = "Pending" ->
           [state |-> IF p.waker = 0 THEN [p EXCEPT !.waker = w] ELSE p,
            res |-> "Pending", resp |-> NoResponse]
      [] p.st = "Rejected" -> [state |-> p, res |-> "Err", resp |-> NoResponse]
      [] p.st = "Resolved" -> [state |-> p, res |-> "Ok", resp |-> p.resp]
      [] OTHER -> [state |-> p, res |-> "Panic", resp |-> NoResponse]

\* Promise::poll by the task with waker w: the state it leaves and what it
\* returns ("Pending", "Ok" with the response, "Err", or "Panic")
promise_poll(p, w) ==
    CASE p.st = "Pending" ->
           [state |-> IF p.waker = 0 THEN [p EXCEPT !.waker = w] ELSE p,
            res |-> "Pending", resp |-> NoResponse]
      [] p.st = "Rejected" -> [state |-> p, res |-> "Err", resp |-> NoResponse]
      [] p.st = "Resolved" ->
           [state |-> [st |-> "Gone", waker |-> 0, resp |-> NoResponse],
            res |-> "Ok", resp |-> p.resp]
      [] OTHER -> [state |-> p, res |-> "Panic", resp |-> NoResponse]

\* (mutant) an entry that is there is overwritten silently
pendings_insert_overwrites(i, token, t) ==
    [panic |-> FALSE, map |-> [pendings EXCEPT ![i][token] = t]]

\* Pendings::insert: HashMap::insert puts the Promise in the table; it panics
\* when the token had an entry
pendings_insert(i, token, t) ==
    [panic |-> pendings[i][token] # 0, map |-> [pendings EXCEPT ![i][token] = t]]

\* (mutant) the entry is looked up and left in the table
pendings_remove_keeps(i, token) ==
    [found |-> pendings[i][token], map |-> pendings]

\* (mutant) the whole table of the instance is cleared
pendings_remove_all(i, token) ==
    [found |-> pendings[i][token],
     map |-> [pendings EXCEPT ![i] = [k \in Tokens |-> 0]]]

\* Pendings::remove: the Promise found (0: none) and the table left
pendings_remove(i, token) ==
    [found |-> pendings[i][token], map |-> [pendings EXCEPT ![i][token] = 0]]

\* HookHolder::on_http_request_headers: the hook is spawned as a task, which
\* makes an outbound call, and the request is paused (Action::Pause)
SpawnCall(t) ==
    /\ pc[t] = "new"
    /\ Idle(InstOf(t))
    /\ pc' = [pc EXCEPT ![t] = "call"]
    /\ readyQ' = [readyQ EXCEPT ![InstOf(t)] = Append(@, t)]
    /\ ev' = [op |-> "spawn", t |-> t, res |-> "Pause", s |-> 0, i |-> InstOf(t)]
    /\ UNCHANGED <<shd, notif, queueMap, run, tslot, tstore, aborted, ninit, tries, prom, pendings, tres, ttoken, term, timer, kvVars, bucketVars>>

\* A task suspended on its Promise may have another source of wake-ups (the
\* Timer of runtime/timeout.rs wakes its task at every poll): rewake.
Suspend(t, rewake) ==
    /\ run' = PollReturns(t)
    /\ readyQ' = IF rewake THEN [readyQ EXCEPT ![InstOf(t)] = WakeAll(@, <<t>>)]
                 ELSE readyQ

\* The first poll of the task: Runtime::http_call (the host hands out token:
\* Promise::pending, Pendings::insert, which panics on a token that is in the
\* table).  Then either the task awaits the Promise at once (pollNow), and
\* this first poll of the Promise finds it Pending, or it awaits something
\* else first (a sleep, whose Timer wakes the task) and polls the Promise in
\* a later poll.
HttpCall(t, token, pollNow) ==
    /\ Running(t)
    /\ pc[t] = "call"
    /\ pendings' = pendings_insert(InstOf(t), token, t).map
    /\ IF pendings_insert(InstOf(t), token, t).panic
       THEN /\ aborted' = [aborted EXCEPT ![InstOf(t)] = TRUE]
            /\ pc' = [pc EXCEPT ![t] = "dead"]
            /\ ev' = [op |-> "http_call", t |-> t, res |-> "Panic", s |-> token, i |-> InstOf(t)]
            /\ UNCHANGED <<prom, run, readyQ, ttoken>>
       ELSE /\ ttoken' = [ttoken EXCEPT ![t] = token]
            /\ prom' = [prom EXCEPT ![t] = IF pollNow THEN promise_poll(PromisePending, t).state
                                            ELSE PromisePending]
            /\ pc' = [pc EXCEPT ![t] = IF pollNow THEN "awaiting" ELSE "registered"]
            /\ IF pollNow THEN \E rewake \in BOOLEAN : Suspend(t, rewake)
               ELSE Suspend(t, TRUE)
            /\ ev' = [op |-> "http_call", t |-> t, res |-> IF pollNow THEN "Pending" ELSE "Registered",
                      s |-> token, i |-> InstOf(t)]
            /\ UNCHANGED aborted
    /\ UNCHANGED <<shd, notif, queueMap, tslot, tstore, ninit, tries, tres, term, timer, kvVars, bucketVars>>

\* A later poll of the task polls its Promise: for the first time
\* ("registered"), while it awaits it ("awaiting"), and again after the Promise has returned ready ("got", and "regot" once a
\* poll made after that has returned a result too).
PromisePoll(t) ==
    /\ Running(t)
    /\ pc[t] \in {"registered", "awaiting", "got", "regot"}
    /\ LET r == promise_poll(prom[t], t)
       IN  /\ prom' = [prom EXCEPT ![t] = r.state]
           /\ ev' = [op |-> "promise_poll", t |-> t, res |-> r.res, s |-> 0, i |-> InstOf(t)]
           /\ CASE r.res = "Panic" ->
                     /\ aborted' = [aborted EXCEPT ![InstOf(t)] = TRUE]
                     /\ pc' = [pc EXCEPT ![t] = "dead"]
                     /\ UNCHANGED <<run, readyQ, tres>>
                [] r.res = "Pending" ->
                     /\ \E rewake \in BOOLEAN : Suspend(t, rewake)
                     /\ pc' = [pc EXCEPT ![t] = "awaiting"]
                     /\ UNCHANGED <<aborted, tres>>
                [] OTHER ->
                     /\ tres' = [tres EXCEPT ![t] = [kind |-> r.res, resp |-> r.resp]]
                     /\ pc' = [pc EXCEPT ![t] = IF pc[t] \in {"registered", "awaiting"} THEN "got"
                                                   ELSE "regot"]
                     /\ UNCHANGED <<aborted, run, readyQ>>
    /\ UNCHANGED <<shd, notif, queueMap, tslot, tstore, ninit, tries, pendings, ttoken, term, timer, kvVars, bucketVars>>

\* (mutant) a rejection is sent without the body of the hook's response
terminal_action_no_body(hr) ==
    IF hr.ok THEN [kind |-> "continue_request", code |-> 0, headers |-> 0, body |-> 0]
    ELSE [kind |-> "reject_request", code |-> hr.code, headers |-> hr.headers, body |-> 0]

\* the match of the spawned future on the hook's result: Ok(()) resumes the
\* request, Err(resp) sends resp as the response
terminal_action(hr) ==
    IF hr.ok THEN [kind |-> "continue_request", code |-> 0, headers |-> 0, body |-> 0]
    ELSE [kind |-> "reject_request", code |-> hr.code, headers |-> hr.headers,
          body |-> hr.body]

\* The hook of the task, which has the result of its call, returns hr, and
\* the spawned future invokes the terminal action and completes (a status
\* with which the host refuses the action is only logged).
Finish(t, hr) ==
    /\ Running(t)
    /\ pc[t] \in {"got", "regot"}
    /\ pc' = [pc EXCEPT ![t] = "finished"]
    /\ term' = [term EXCEPT ![t] = Append(@, terminal_action(hr))]
    /\ run' = PollReturns(t)
    /\ ev' = [op |-> "finish", t |-> t, res |-> "none", s |-> 0, i |-> InstOf(t)]
    /\ UNCHANGED <<shd, notif, queueMap, readyQ, tslot, tstore, aborted, ninit, tries, prom, pendings, tres, ttoken, timer, kvVars, bucketVars>>

\* RuntimeBox::on_http_call_response(token_id, num_headers, body_size, _),
\* r being what the host reports and returns: the host may call it for any
\* token, any number of times
OnHttpCallResponse(i, token, r) ==
    /\ Idle(i)
    /\ LET rm == pendings_remove(i, token)
           p == rm.found
       IN  IF p = 0
           THEN /\ ev' = [op |-> "http_response", t |-> 0, res |-> "ignored", s |-> token, i |-> i]
                /\ UNCHANGED <<prom, pendings, readyQ>>
           ELSE /\ pendings' = rm.map
                /\ IF r.headers = 0
                   THEN /\ prom' = [prom EXCEPT ![p] = reject(prom[p]).state]
                        /\ ev' = [op |-> "http_response", t |-> p, res |-> "rejected", s |-> token, i |-> i]
                        /\ UNCHANGED readyQ
                   ELSE LET x == resolve(prom[p], [headers |-> r.headers, body |-> r.body,
                                                   trailers |-> r.trailers])
                        IN  /\ prom' = [prom EXCEPT ![p] = x.state]
                            /\ readyQ' = IF x.wake # 0
                                         THEN [readyQ EXCEPT ![i] = WakeAll(@, <<x.wake>>)]
                                         ELSE readyQ
                            /\ ev' = [op |-> "http_response", t |-> p, res |-> "resolved", s |-> token, i |-> i]
    /\ UNCHANGED <<shd, notif, queueMap, run, pc, tslot, tstore, aborted, ninit, tries, tres, ttoken, term, timer, kvVars, bucketVars>>

NextPromise ==
    \/ \E t \in Tasks : SpawnCall(t)
    \/ \E i \in Instances : OnTick(i)
    \/ \E t \in Tasks, k \in Tokens, pollNow \in BOOLEAN : HttpCall(t, k, pollNow)
    \/ \E t \in Tasks : PromisePoll(t)
    \/ \E t \in Tasks, hr \in HookResults : Finish(t, hr)
    \/ \E i \in Instances, k \in Tokens, r \in HostResponses : OnHttpCallResponse(i, k, r)

\* outbound calls and their response callbacks, in any order
SpecPromise == Init /\ [][NextPromise]_vars

\* ------------------------------------------------------- claims, Promise
\* the Promise of task t has left Pending
Settled(t) == prom[t].st \in {"Resolved", "Rejected", "Gone"}
\* the step is a poll of the Promise of task t
PollOf(t) == ev'.op = "promise_poll" /\ ev'.t = t

\* C8: whatever the order of http_call dispatches and response callbacks,
\* repeated callbacks for a token included, a Promise is settled (made
\* Resolved or Rejected) at most once: a callback settles a Promise only if it
\* is Pending, a Promise enters Resolved or Rejected only from Pending, and a
\* Promise that has left Pending never is Pending again, nor is its settled
\* state replaced by another one.
C8_SettledAtMostOnce ==
    [][\A t \in Tasks :
          /\ (ev'.op = "http_response" /\ ev'.t = t /\ ev'.res \in {"resolved", "rejected"})
                => prom[t].st = "Pending"
          /\ (prom'[t] # prom[t] /\ prom'[t].st \in {"Resolved", "Rejected"})
                => prom[t].st = "Pending"
          /\ Settled(t) => prom'[t].st # "Pending"]_vars

\* a callback came again for the token of a Promise that an earlier callback
\* had resolved, and was ignored
C8_Witness ==
    \E t \in Tasks :
        /\ prom[t].st = "Resolved"
        /\ ev.op = "http_response" /\ ev.res = "ignored"
        /\ ev.s = ttoken[t] /\ ev.i = InstOf(t)

\* C9: a poll of a Resolved Promise returns the response it was resolved with
\* as ready-success and leaves the Promise Gone; ready-success is returned by
\* no other poll, and a Gone Promise stays Gone, so the response is returned
\* once; a poll of a Gone Promise aborts (the instance panics, and no result
\* is returned).
C9_ResolvedValueReturnedOnce ==
    [][\A t \in Tasks :
          /\ (PollOf(t) /\ prom[t].st = "Resolved")
                => /\ tres'[t] = [kind |-> "Ok", resp |-> prom[t].resp]
                   /\ prom'[t].st = "Gone"
                   /\ ~aborted'[InstOf(t)]
          /\ (PollOf(t) /\ ev'.res = "Ok") => prom[t].st = "Resolved"
          /\ prom[t].st = "Gone" => prom'[t].st = "Gone"
          /\ (PollOf(t) /\ prom[t].st = "Gone")
                => /\ aborted'[InstOf(t)]
                   /\ tres' = tres]_vars

\* a task got the response of its Promise, polled the Promise again, and the
\* instance panicked
C9_Witness ==
    \E t \in Tasks :
        /\ tres[t].kind = "Ok" /\ tres[t].resp.headers > 0 /\ tres[t].resp.body = 1
        /\ prom[t].st = "Gone"
        /\ ev.op = "promise_poll" /\ ev.t = t /\ ev.res = "Panic"
        /\ aborted[InstOf(t)]

\* C10: once a poll of a Promise has returned ready, with a response or with
\* a rejection, a later poll of it aborts and returns no result.
C10_PollAfterReadyAborts ==
    [][\A t \in Tasks :
          (PollOf(t) /\ pc[t] \in {"got", "regot"})
              => /\ aborted'[InstOf(t)]
                 /\ ev'.res = "Panic"]_vars

\* C11: a callback that reports zero headers for the token of a Promise a task
\* is suspended on (its waker is recorded) makes the Promise Rejected and
\* wakes the task: the task is queued for the next tick.
C11_RejectWakesTheTask ==
    [][\A t \in Tasks :
          (ev'.op = "http_response" /\ ev'.res = "rejected" /\ ev'.t = t
             /\ prom[t].st = "Pending" /\ prom[t].waker = t)
              => /\ prom'[t].st = "Rejected"
                 /\ InSeq(t, readyQ'[InstOf(t)])]_vars

\* the scheduling the host and the executor give an instance: ticks keep
\* arriving, and a task that is being polled takes its next step
PromiseFairness ==
    /\ \A i \in Instances : WF_vars(OnTick(i))
    /\ \A t \in Tasks :
          /\ WF_vars(\E k \in Tokens, pollNow \in BOOLEAN : HttpCall(t, k, pollNow))
          /\ WF_vars(PromisePoll(t))
          /\ WF_vars(\E hr \in HookResults : Finish(t, hr))

\* outbound calls of two tasks and their callbacks, under that scheduling
SpecPromiseLive == InitTwo /\ [][NextPromise]_vars /\ PromiseFairness

\* C12: a callback that reports headers for the token of a Pending Promise
\* makes it Resolved with exactly the headers, body and trailers of the
\* callback and queues the task whose waker the Promise recorded, if any;
\* the response stays there until the task polls the Promise, the poll
\* returns it, and the task does get to that poll: also when the callback
\* came before the first poll of the Promise (no waker recorded).
C12_ResolveDeliversTheResponse ==
    /\ [][\A t \in Tasks :
            /\ \A k \in Tokens, r \in HostResponses :
                  (OnHttpCallResponse(InstOf(t), k, r) /\ pendings[InstOf(t)][k] = t
                     /\ r.headers > 0)
                  => /\ prom'[t] = [st |-> "Resolved", waker |-> 0, resp |-> r]
                     /\ prom[t].waker # 0 => InSeq(prom[t].waker, readyQ'[InstOf(t)])
            /\ (prom[t].st = "Resolved" /\ prom'[t] # prom[t]) => PollOf(t)
            /\ (prom[t].st = "Resolved" /\ PollOf(t))
                  => tres'[t] = [kind |-> "Ok", resp |-> prom[t].resp]]_vars
    /\ \A t \in Tasks :
          (prom[t].st = "Resolved" /\ pc[t] \in {"registered", "awaiting"})
              ~> (tres[t].kind = "Ok" \/ aborted[InstOf(t)])

\* a callback with trailers has resolved a Promise that its task has not
\* polled yet
C12_Witness ==
    \E t \in Tasks :
        /\ ev.op = "http_response" /\ ev.t = t /\ ev.res = "resolved"
        /\ pc[t] = "registered"
        /\ prom[t] = [st |-> "Resolved", waker |-> 0,
                      resp |-> [headers |-> 1, body |-> 0, trailers |-> 1]]

\* the step is a response callback for token k in instance i
CallbackOf(i, k) == ev'.op = "http_response" /\ ev'.i = i /\ ev'.s = k

\* C13: the first callback delivered for a token removes its entry from the
\* pending table (that entry only, and in an instance that runs only a
\* callback for the token removes it); a callback for a token that has no entry, because an earlier callback
\* removed it or because it was never registered, changes no Promise and no
\* table entry (and wakes nobody).
C13_EntryRemovedByFirstCallback ==
    [][\A i \in Instances, k \in Tokens :
          /\ (CallbackOf(i, k) /\ pendings[i][k] # 0)
                => /\ pendings' = [pendings EXCEPT ![i][k] = 0]
                   /\ \A t \in Tasks : t # pendings[i][k] => prom'[t] = prom[t]
          /\ (CallbackOf(i, k) /\ pendings[i][k] = 0)
                => /\ pendings' = pendings
                   /\ prom' = prom
                   /\ readyQ' = readyQ
                   /\ ev'.res = "ignored"
          /\ (pendings[i][k] # 0 /\ pendings'[i][k] # pendings[i][k] /\ ~aborted'[i])
                => CallbackOf(i, k)]_vars

\* a callback came for a token that no call of the instance was given, while
\* a Promise of the instance is in the table, and was ignored
C13_Witness ==
    /\ ev.op = "http_response" /\ ev.res = "ignored"
    /\ \A t \in Tasks : InstOf(t) = ev.i => ttoken[t] # ev.s
    /\ \E t \in Tasks, k \in Tokens :
          InstOf(t) = ev.i /\ pendings[ev.i][k] = t /\ prom[t].st = "Pending"

\* C14: an http_call whose token is still in the pending table aborts the
\* instance (the caller gets no Promise); an http_call
\* whose token is not in the table, never registered or removed by its
\* callback, registers its Promise under the token and does not abort.
C14_DuplicateTokenAborts ==
    [][\A t \in Tasks, k \in Tokens :
          (ev'.op = "http_call" /\ ev'.t = t /\ ev'.s = k) =>
              IF pendings[InstOf(t)][k] # 0
              THEN /\ aborted'[InstOf(t)]
                   /\ ev'.res = "Panic"
                   /\ prom' = prom
              ELSE /\ ~aborted'[InstOf(t)]
                   /\ pendings' = [pendings EXCEPT ![InstOf(t)][k] = t]
                   /\ prom'[t].st = "Pending"]_vars

\* a token whose first Promise was settled by its callback has been
\* registered again by another task of the instance, which now awaits it
C14_Witness ==
    \E t, u \in Tasks :
        /\ t # u /\ InstOf(t) = InstOf(u)
        /\ ttoken[t] = ttoken[u] /\ ttoken[t] # 0
        /\ Settled(u)
        /\ ev.op = "http_call" /\ ev.t = t /\ ev.res # "Panic"
        /\ pendings[InstOf(t)][ttoken[t]] = t
        /\ ~aborted[InstOf(t)]

\* ------------------------------------------------- claims, the executor
\* the step runs code of task t (a poll of it, or a part of one)
TaskStep(t) == ev'.t = t /\ ev'.op \in {"poll", "read", "modify", "yield", "release"}

\* C15: spawn queues the task and returns without polling it: the task is put
\* at the end of the ready queue, no code of it runs (no host call is made,
\* its TryLock is not polled), also when its first poll will take the lock
\* and complete without suspending; code of a task runs only while the task
\* is at the head of a drain pass, and only on_tick starts a drain pass.
C15_SpawnDoesNotPoll ==
    [][\A t \in Tasks :
          /\ (ev'.op = "spawn" /\ ev'.t = t)
                => /\ pc[t] = "new" /\ pc'[t] = "ready"
                   /\ readyQ'[InstOf(t)] = Append(readyQ[InstOf(t)], t)
                   /\ run' = run /\ ~InSeq(t, run'[InstOf(t)])
                   /\ tries'[t] = 0
                   /\ shd' = shd /\ tstore' = tstore
          /\ TaskStep(t) => (run[InstOf(t)] # <<>> /\ Head(run[InstOf(t)]) = t)
          /\ (InSeq(t, run'[InstOf(t)]) /\ ~InSeq(t, run[InstOf(t)]))
                => (ev'.op = "tick" /\ InSeq(t, readyQ[InstOf(t)]))]_vars

\* a task has been spawned while another task of the instance was queued: it
\* is behind it in the ready queue and has not polled its lock
C15_Witness ==
    \E t, u \in Tasks :
        /\ t # u
        /\ ev.op = "spawn" /\ ev.t = t
        /\ readyQ[InstOf(t)] = <<u, t>>
        /\ tries[t] = 0 /\ pc[t] = "ready"
        /\ ~shd[tslot[t]].store.locked

\* q has no task twice
NoRepeat(q) == \A j, k \in 1 .. Len(q) : q[j] = q[k] => j = k
\* q is p with tasks added at its end
Extends(q, p) == Len(q) >= Len(p) /\ SubSeq(q, 1, Len(p)) = p
\* the step invokes the waker of task t
WakeOf(t) ==
    \/ ev'.op = "spawn" /\ ev'.t = t
    \/ ev'.op = "yield" /\ ev'.t = t
    \/ ev'.op = "queue_ready" /\ ev'.i = InstOf(t)
         /\ InSeq(t, queueMap[InstOf(t)][ev'.s])

\* C16: in an instance, a woken task is queued once, behind the tasks woken
\* before it; on_tick takes the whole queue, in that order, as its drain pass
\* and leaves the queue empty, so a task woken during a pass waits for the
\* next one; the tasks of a pass are polled from its head, each once; a task
\* enters the queue only by a wake event, and a completed task is in no queue
\* and no pass.
C16_DrainOrder ==
    /\ [](\A i \in Instances : NoRepeat(readyQ[i]) /\ NoRepeat(run[i]))
    /\ [](\A t \in Tasks : pc[t] \in {"done", "failed"}
             => ~InSeq(t, readyQ[InstOf(t)]) /\ ~InSeq(t, run[InstOf(t)]))
    /\ [][\A i \in Instances :
            /\ (ev'.op = "tick" /\ ev'.i = i)
                  => run[i] = <<>> /\ run'[i] = readyQ[i] /\ readyQ'[i] = <<>>
            /\ ~(ev'.op = "tick" /\ ev'.i = i)
                  => /\ Extends(readyQ'[i], readyQ[i])
                     /\ run'[i] = run[i] \/ run'[i] = Tail(run[i])
            /\ \A t \in Tasks :
                  /\ (InstOf(t) = i /\ TaskStep(t)) => (run[i] # <<>> /\ Head(run[i]) = t)
                  /\ (InstOf(t) = i /\ InSeq(t, readyQ'[i]) /\ ~InSeq(t, readyQ[i]))
                        => WakeOf(t)
                  /\ (InstOf(t) = i /\ run[i] # <<>> /\ Head(run[i]) = t /\ run'[i] = Tail(run[i]))
                        => TaskStep(t)
                  /\ pc[t] \in {"done", "failed"} => pc'[t] = pc[t]]_vars

\* a tick has started a drain pass of two tasks that a queue notification
\* woke, the task with the higher number first (it had parked first)
C16_Witness ==
    /\ ev.op = "tick" /\ ev.i = 1
    /\ run[1] = <<3, 1>> /\ readyQ[1] = <<>>
    /\ pc[1] = "ready" /\ pc[3] = "ready"
    /\ tries[1] >= 1 /\ tries[3] >= 1

\* ---------------------------------------------- claims, the request hook
\* two requests: one of the three tasks never makes one
SpecPromiseTwo == InitTwo /\ [][NextPromise]_vars

\* C17: the request-headers handler spawns the hook as one task and pauses
\* the request; no terminal action is invoked before the hook has completed;
\* the completion of the hook invokes one terminal action, once:
\* continue_request if the hook returned Ok, otherwise reject_request with
\* the status code, headers and body of the response the hook returned; and
\* nothing else ever invokes one.
C17_OneTerminalAction ==
    /\ [](\A t \in Tasks :
             /\ pc[t] # "finished" => term[t] = <<>>
             /\ pc[t] = "finished" => Len(term[t]) = 1)
    /\ [][\A t \in Tasks :
            /\ (ev'.op = "spawn" /\ ev'.t = t)
                  => /\ ev'.res = "Pause"
                     /\ readyQ'[InstOf(t)] = Append(readyQ[InstOf(t)], t)
                     /\ ~InSeq(t, readyQ[InstOf(t)])
            /\ \A hr \in HookResults :
                  Finish(t, hr) =>
                     term'[t] = << IF hr.ok
                                   THEN [kind |-> "continue_request", code |-> 0,
                                         headers |-> 0, body |-> 0]
                                   ELSE [kind |-> "reject_request", code |-> hr.code,
                                         headers |-> hr.headers, body |-> hr.body] >>
            /\ term'[t] # term[t]
                  => (ev'.op = "finish" /\ ev'.t = t /\ pc[t] \in {"got", "regot"})]_vars

\* a hook whose outbound call failed has returned a response, and the request
\* was rejected with it, once
C17_Witness ==
    \E t \in Tasks :
        /\ pc[t] = "finished" /\ tres[t].kind = "Err"
        /\ ev.op = "finish" /\ ev.t = t
        /\ term[t] = << [kind |-> "reject_request", code |-> 1, headers |-> 1, body |-> 1] >>

\* ================================================================ Part 3
\* ------------------------------------------------------- Expirations
\* Expirations::now
now == clock

\* the order of (u64, String): by expiry, then by key
entry_le(a, b) == a[1] < b[1] \/ (a[1] = b[1] /\ a[2] <= b[2])

\* slice::sort, stable, on the entries of the list
RECURSIVE sort_insert(_, _)
sort_insert(e, s) ==
    IF s = <<>> THEN <<e>>
    ELSE IF entry_le(Head(s), e) THEN <<Head(s)>> \o sort_insert(e, Tail(s))
         ELSE <<e>> \o s
RECURSIVE sort(_)
sort(s) == IF s = <<>> THEN <<>> ELSE sort_insert(s[Len(s)], sort(SubSeq(s, 1, Len(s) - 1)))

\* (mutant) the new entry is appended and the list is left as it is
push_no_sort(list, key, ttl) == Append(list, <<now + ttl, key>>)

\* Expirations::push: the entry (now + ttl, key) is appended, then the whole
\* list is sorted
push(list, key, ttl) == sort(Append(list, <<now + ttl, key>>))

\* Expirations::pop_expired: entries are popped off the front until one
\* expires later than now; the keys popped are returned, in order
RECURSIVE pop_expired(_)
pop_expired(list) ==
    IF list = <<>> \/ Head(list)[1] > now
    THEN [list |-> list, expired |-> <<>>]
    ELSE LET r == pop_expired(Tail(list))
         IN  [list |-> r.list, expired |-> <<Head(list)[2]>> \o r.expired]

\* ------------------------------------------------------- the host, again
\* hostcalls::set_shared_data(key, value, cas) on an entry: cas None (0)
\* writes unconditionally; get_shared_data of a key never written returns
\* (None, None)
KvSetOk(e, cas) == cas = 0 \/ cas = e.cas

\* ------------------------------------------------------- ExpiringKVStore
\* what the last step was: a call returning (its result, and whether no other
\* instance was inside a call while it ran), a get (the value read), or a step
\* inside a call
KvEvent(i, o, res) ==
    IF res \in {"Ok", "Status"}
    THEN [op |-> o.op, key |-> o.key, val |-> o.val, res |-> res, alone |-> o.alone]
    ELSE [NoKvEvent EXCEPT !.op = "step"]

\* the puts whose entry has expired: what a call beginning now comes after
ExpiredPuts == {kput[k].id : k \in {x \in Keys : kput[x].id # 0 /\ now > kput[x].exp}}

\* a call of instance i begins: it is not inside another (calls are synchronous).
\* A call that writes the value of key k ends what is known of the last put of k.
Begin(i, o) ==
    /\ kop[i].pc = "idle"
    /\ nops + 1 \in CallIds
    /\ nops' = nops + 1
    /\ kop' = [j \in Instances |->
                  IF j = i
                  THEN [o EXCEPT !.after = ExpiredPuts,
                                 !.alone = \A x \in Instances : kop[x].pc = "idle"]
                  ELSE [kop[j] EXCEPT !.alone = FALSE]]
    /\ kput' = IF o.op \in {"put", "update"}
               THEN [kput EXCEPT ![o.key] = NoPut] ELSE kput
    /\ kev' = KvEvent(i, o, "begin")

\* the call of instance i returns res
Return(i, o, res) ==
    /\ kop' = [kop EXCEPT ![i] = NoOp]
    /\ kev' = KvEvent(i, o, res)
    /\ kput' = IF res = "Ok" /\ o.op = "put"
               THEN [kput EXCEPT ![o.key] = [id |-> o.val, exp |-> o.exp]] ELSE kput
    /\ swept' = IF res = "Ok" /\ o.op \in {"put", "update"}
                THEN swept \cup {kput[k].id : k \in {x \in Keys : kput[x].id \in o.after}}
                ELSE swept

\* ExpiringKVStore::get -> KVStore::get -> LowLevelKVStore::get: one read;
\* the index is not looked at
get(i, k) ==
    /\ kop[i].pc = "idle"
    /\ kev' = [NoKvEvent EXCEPT !.op = "get", !.key = k, !.res = kvd[k].val]
    /\ UNCHANGED <<kvd, exps, clock, kop, nops, kput, swept, coreVars, bucketVars>>

\* ExpiringKVStore::put, up to the return of store.put: LowLevelKVStore::put
\* writes the value unconditionally; enqueue_expires is next.  The value
\* written is the number of the call, so that no two puts write the same
put(i, k, ttl) ==
    /\ Begin(i, [NoOp EXCEPT !.op = "put", !.pc = "enq_get", !.key = k, !.ttl = ttl,
                             !.val = nops + 1])
    /\ kvd' = [kvd EXCEPT ![k] = [val |-> nops + 1, cas |-> @.cas + 1]]
    /\ UNCHANGED <<exps, clock, swept, coreVars, bucketVars>>

\* ExpiringKVStore::enqueue_expires called on its own
enqueue_expires(i, k, ttl) ==
    /\ Begin(i, [NoOp EXCEPT !.op = "enqueue_expires", !.pc = "enq_get", !.key = k,
                             !.ttl = ttl])
    /\ UNCHANGED <<kvd, exps, clock, swept, coreVars, bucketVars>>

\* ExpiringKVStore::gc called on its own
gc(i) ==
    /\ Begin(i, [NoOp EXCEPT !.op = "gc", !.pc = "gc_get"])
    /\ UNCHANGED <<kvd, exps, clock, swept, coreVars, bucketVars>>

\* expirations.update, first half: the index is read with its version and the
\* closure is run on what was read.  In enqueue_expires the closure pushes
\* the key (on a fresh list if there is no index); in gc it pops the expired
\* entries into `expired`, or returns a fresh list and leaves `expired` as it
\* is if there is no index
expirations_update_get(i) ==
    LET o == kop[i] IN
    /\ o.pc \in {"enq_get", "gc_get"}
    /\ IF o.pc = "enq_get"
       THEN kop' = [kop EXCEPT ![i] = [o EXCEPT !.pc = "enq_set", !.cas = exps.cas,
                                                !.new = push(exps.list, o.key, o.ttl),
                                                !.exp = now + o.ttl]]
       ELSE LET r == pop_expired(exps.list) IN
            kop' = [kop EXCEPT ![i] = [o EXCEPT !.pc = "gc_set", !.cas = exps.cas,
                                                !.new = r.list,
                                                !.expired = IF exps.cas = 0 THEN o.expired
                                                            ELSE r.expired]]
    /\ kev' = KvEvent(i, o, "read")
    /\ UNCHANGED <<kvd, exps, clock, nops, kput, swept, coreVars, bucketVars>>

\* where a call goes on once keys are left to remove, or returns
AfterRemove(i, o, expired) ==
    IF expired = <<>>
    THEN Return(i, o, "Ok")
    ELSE /\ kop' = [kop EXCEPT ![i] = [o EXCEPT !.pc = "rm_get", !.expired = expired,
                                                !.new = <<>>, !.cas = 0]]
         /\ kev' = KvEvent(i, o, "step")
         /\ UNCHANGED <<kput, swept>>

\* expirations.update, second half: the write conditioned on the version
\* read.  CasMismatch: the loop reads again.  Written: enqueue_expires goes on
\* to gc, gc to the removal of the expired keys
expirations_update_set(i) ==
    LET o == kop[i] IN
    /\ o.pc \in {"enq_set", "gc_set"}
    /\ IF ~KvSetOk(exps, o.cas)
       THEN /\ kop' = [kop EXCEPT ![i] = [o EXCEPT !.pc = IF o.pc = "enq_set" THEN "enq_get"
                                                          ELSE "gc_get"]]
            /\ kev' = KvEvent(i, o, "CasMismatch")
            /\ UNCHANGED <<exps, kput, swept>>
       ELSE /\ exps' = [list |-> o.new, cas |-> exps.cas + 1]
            /\ IF o.pc = "enq_set"
               THEN /\ kop' = [kop EXCEPT ![i] = [o EXCEPT !.pc = "gc_get", !.new = <<>>,
                                                           !.cas = 0]]
                    /\ kev' = KvEvent(i, o, "step")
                    /\ UNCHANGED <<kput, swept>>
               ELSE AfterRemove(i, o, o.expired)
    /\ UNCHANGED <<kvd, clock, nops, coreVars, bucketVars>>

\* ExpiringKVStore::remove -> LowLevelKVStore::remove
remove(i, k) ==
    /\ Begin(i, [NoOp EXCEPT !.op = "remove", !.pc = "rm_get", !.key = k, !.expired = <<k>>])
    /\ UNCHANGED <<kvd, exps, clock, swept, coreVars, bucketVars>>

\* (mutant) the key is read and the write is always made
store_remove_get_no_check(i) ==
    LET o == kop[i]
        k == Head(o.expired)
    IN  /\ o.pc = "rm_get"
        /\ kop' = [kop EXCEPT ![i] = [o EXCEPT !.pc = "rm_set", !.cas = kvd[k].cas]]
        /\ kev' = KvEvent(i, o, "read")
        /\ UNCHANGED <<kput, swept>>
        /\ UNCHANGED <<kvd, exps, clock, nops, coreVars, bucketVars>>

\* LowLevelKVStore::remove, first half: the key is read; with no value
\* there, Ok is returned at once
store_remove_get(i) ==
    LET o == kop[i]
        k == Head(o.expired)
    IN  /\ o.pc = "rm_get"
        /\ IF kvd[k].val = 0
           THEN AfterRemove(i, o, Tail(o.expired))
           ELSE /\ kop' = [kop EXCEPT ![i] = [o EXCEPT !.pc = "rm_set", !.cas = kvd[k].cas]]
                /\ kev' = KvEvent(i, o, "read")
                /\ UNCHANGED <<kput, swept>>
        /\ UNCHANGED <<kvd, exps, clock, nops, coreVars, bucketVars>>

\* LowLevelKVStore::remove, second half: None is written, conditioned on the
\* version read; CasMismatch: the loop reads again
store_remove_set(i) ==
    LET o == kop[i]
        k == Head(o.expired)
    IN  /\ o.pc = "rm_set"
        /\ IF ~KvSetOk(kvd[k], o.cas)
           THEN /\ kop' = [kop EXCEPT ![i] = [o EXCEPT !.pc = "rm_get"]]
                /\ kev' = KvEvent(i, o, "CasMismatch")
                /\ UNCHANGED <<kvd, kput, swept>>
           ELSE /\ kvd' = [kvd EXCEPT ![k] = [val |-> 0, cas |-> @.cas + 1]]
                /\ AfterRemove(i, o, Tail(o.expired))
        /\ UNCHANGED <<exps, clock, nops, coreVars, bucketVars>>

\* ExpiringKVStore::update -> KVStore::update -> LowLevelKVStore::update: no
\* more than the read-modify-write of the value; the closure's result is
\* the number of the call
update(i, k) ==
    /\ Begin(i, [NoOp EXCEPT !.op = "update", !.pc = "upd_get", !.key = k, !.val = nops + 1])
    /\ UNCHANGED <<kvd, exps, clock, swept, coreVars, bucketVars>>

\* ExpiringKVStore::update with an adding closure, |old| old.unwrap_or(0) + d
BeginAdd(i, k, d) ==
    /\ kop[i].pc = "idle"
    /\ kop' = [j \in Instances |->
                  IF j = i
                  THEN [NoOp EXCEPT !.op = "update", !.pc = "upd_get", !.key = k, !.d = d,
                                    !.after = ExpiredPuts,
                                    !.alone = \A x \in Instances : kop[x].pc = "idle"]
                  ELSE [kop[j] EXCEPT !.alone = FALSE]]
    /\ kput' = [kput EXCEPT ![k] = NoPut]
    /\ kev' = [NoKvEvent EXCEPT !.op = "step"]

update_add(i, k, d) ==
    /\ nops < MaxUpdates
    /\ nops' = nops + 1
    /\ BeginAdd(i, k, d)
    /\ UNCHANGED <<kvd, exps, clock, swept, coreVars, bucketVars>>

\* LowLevelKVStore::update on the value, first half: the read, and the
\* closure run on the value read; an adding closure (d # 0) returns
\* old.unwrap_or(0) + d
store_update_get(i) ==
    LET o == kop[i] IN
    /\ o.pc = "upd_get"
    /\ kop' = [kop EXCEPT ![i] = [o EXCEPT !.pc = "upd_set", !.cas = kvd[o.key].cas,
                                           !.val = IF o.d = 0 THEN o.val
                                                   ELSE kvd[o.key].val + o.d]]
    /\ kev' = KvEvent(i, o, "read")
    /\ UNCHANGED <<kvd, exps, clock, nops, kput, swept, coreVars, bucketVars>>

\* (mutant) the value is written whatever the version read
store_update_set_no_cas(i) ==
    LET o == kop[i] IN
    /\ o.pc = "upd_set"
    /\ kvd' = [kvd EXCEPT ![o.key] = [val |-> o.val, cas |-> @.cas + 1]]
    /\ applied' = [applied EXCEPT ![o.key] = @ + o.d]
    /\ Return(i, o, "Ok")
    /\ UNCHANGED <<exps, clock, nops, coreVars, buffer, stop, bev, bk>>

\* LowLevelKVStore::update on the value, second half: the conditional write;
\* CasMismatch: the loop reads again and runs the closure again
store_update_set(i) ==
    LET o == kop[i] IN
    /\ o.pc = "upd_set"
    /\ IF ~KvSetOk(kvd[o.key], o.cas)
       THEN /\ kop' = [kop EXCEPT ![i] = [o EXCEPT !.pc = "upd_get"]]
            /\ kev' = KvEvent(i, o, "CasMismatch")
            /\ UNCHANGED <<kvd, kput, swept>>
            /\ UNCHANGED applied
       ELSE /\ kvd' = [kvd EXCEPT ![o.key] = [val |-> o.val, cas |-> @.cas + 1]]
            /\ applied' = [applied EXCEPT ![o.key] = @ + o.d]
            /\ Return(i, o, "Ok")
    /\ UNCHANGED <<exps, clock, nops, coreVars, buffer, stop, bev, bk>>

\* a host call of the call in progress fails with another status: the `?`
\* returns it, whatever was written stays written
KvFault(i) ==
    /\ kop[i].pc # "idle"
    /\ Return(i, kop[i], "Status")
    /\ UNCHANGED <<kvd, exps, clock, nops, coreVars, bucketVars>>

\* a second passes
Tick ==
    /\ clock < MaxTime
    /\ clock' = clock + 1
    /\ kev' = [NoKvEvent EXCEPT !.op = "step"]
    /\ UNCHANGED <<kvd, exps, kop, nops, kput, swept, coreVars, bucketVars>>

NextKV ==
    \/ \E i \in Instances, k \in Keys : get(i, k) \/ update(i, k) \/ remove(i, k)
    \/ \E i \in Instances, k \in Keys, ttl \in Ttls : put(i, k, ttl) \/ enqueue_expires(i, k, ttl)
    \/ \E i \in Instances :
          \/ gc(i)
          \/ expirations_update_get(i) \/ expirations_update_set(i)
          \/ store_remove_get(i) \/ store_remove_set(i)
          \/ store_update_get(i) \/ store_update_set(i)
          \/ KvFault(i)
    \/ Tick
SpecKV == Init /\ [][NextKV]_vars

\* every key holds a value: it was written once and never removed
InitHeld ==
    /\ shd = [s \in Slots |-> [store |-> StoreNew(0), cas |-> 1]]
    /\ pc = [t \in Tasks |-> "new"]
    /\ InitCore
    /\ kvd = [k \in Keys |-> [val |-> InitialValue, cas |-> 1]]
    /\ exps = [list |-> <<>>, cas |-> 0]
    /\ clock = 0
    /\ kop = [i \in Instances |-> NoOp]
    /\ nops = 0
    /\ kev = NoKvEvent
    /\ kput = [k \in Keys |-> NoPut]
    /\ swept = {}
    /\ BucketInit

\* update calls with adding closures, alone
NextUpdate ==
    \/ \E i \in Instances, k \in Keys, d \in Deltas : update_add(i, k, d)
    \/ \E i \in Instances : store_update_get(i) \/ store_update_set(i) \/ KvFault(i)
SpecUpdate == InitHeld /\ [][NextUpdate]_vars

\* the calls that write the index, alone
NextIndex ==
    \/ \E i \in Instances, k \in Keys, ttl \in Ttls : put(i, k, ttl) \/ enqueue_expires(i, k, ttl)
    \/ \E i \in Instances :
          \/ gc(i)
          \/ expirations_update_get(i) \/ expirations_update_set(i)
          \/ store_remove_get(i) \/ store_remove_set(i)
          \/ KvFault(i)
    \/ Tick
SpecIndex == Init /\ [][NextIndex]_vars

\* ------------------------------------------------------- claims on the store
\* C18: a get(k) made as the very next step after a put(k, v, ttl) returned Ok,
\* no step of any instance and no second of the clock in between, returns v,
\* whatever the ttl (stated of a put during which no other instance was
\* inside a call)
C18_GetRightAfterPutReturnsValue ==
    [][(kev.op = "put" /\ kev.res = "Ok" /\ kev.alone /\ kev'.op = "get" /\ kev'.key = kev.key)
         => kev'.res = kev.val]_vars

\* C19: once a put(k, v, ttl) has returned Ok, its expiry has passed (now >
\* put_time + ttl) and a put or update call on any key, begun after that, has
\* returned Ok, a get(k) returns none (until k is written again)
C19_ExpiredAfterNextWrite ==
    (kev.op = "get" /\ kput[kev.key].id \in swept) => kev.res = 0

\* the entries of an index in ascending order of expiry
SortedByExpiry(list) ==
    \A a, b \in 1 .. Len(list) : a < b => list[a][1] <= list[b][1]

\* C20: whatever put, enqueue_expires and gc calls of the instances have run
\* or are running, interleaved in any way, the stored expirations index is
\* sorted ascending by expiry time
C20_IndexSorted == SortedByExpiry(exps.list)

\* an enqueue_expires has just written an index in which the entry it pushed
\* stands before an entry pushed earlier, which expires later
C20_Witness ==
    /\ Len(exps.list) >= 2
    /\ exps.list[1][1] < exps.list[2][1]
    /\ \E i \in Instances :
          /\ kop[i].pc = "gc_get"
          /\ kop[i].op \in {"put", "enqueue_expires"}
          /\ exps.list[1] = <<kop[i].exp, kop[i].key>>

\* ------------------------------------------------------- claims, update
\* the step is one of the update call instance i is in
UpdateStepOf(i) == kop[i].op = "update" /\ kop'[i].pc # kop[i].pc

\* C21: update calls with adding closures, from several instances and
\* interleaved in any way, on keys that hold a value: a conditional write
\* that meets another version writes nothing and the call reads again; the
\* write that succeeds is made at the version read and leaves the value
\* current at that moment plus d; a call returns Ok by such a write only; and
\* so every key holds its initial value plus the sum of the d of the calls
\* that returned Ok: no update is lost
C21_NoUpdateLost ==
    /\ [](\A k \in Keys : kvd[k].val = InitialValue + applied[k])
    /\ [][\A i \in Instances :
            (UpdateStepOf(i) /\ kop[i].pc = "upd_set")
               => LET o == kop[i] IN
                  \/ /\ o.cas # kvd[o.key].cas
                     /\ kop'[i].pc = "upd_get"
                     /\ kvd' = kvd
                  \/ /\ o.cas = kvd[o.key].cas
                     /\ kop'[i].pc = "idle"
                     /\ kev'.res = "Ok"
                     /\ kvd'[o.key].val = kvd[o.key].val + o.d
                     /\ \A k \in Keys \ {o.key} : kvd'[k] = kvd[k]
                  \/ /\ kev'.res = "Status"
                     /\ kvd' = kvd]_vars

\* an update read the value, another instance's update of the same key was
\* written since, and the first is about to write at the version it read
C21_Witness ==
    \E i \in Instances :
        /\ kop[i].pc = "upd_set"
        /\ kop[i].cas # kvd[kop[i].key].cas
        /\ applied[kop[i].key] > 0

\* ================================================================ Part 4
\* ------------------------------------------------------- CounterBucket
\* (mutant) the increment replaces what the buffer held for the key
buffer_inc_overwrites(buf, k, n) == [buf EXCEPT ![k] = n]

\* inc: *buffer.entry(key).or_insert(0) += value
buffer_inc(buf, k, n) == [buf EXCEPT ![k] = @ + n]

\* get: store.get(key)?.unwrap_or(0) + buffer.get(key).copied().unwrap_or(0)
counter_get(i, k) == kvd[k].val + buffer[i][k]

\* buffer.drain().collect(): the entries of the buffer, in the order the map
\* yields them
drain(buf, order) == SelectSeq([j \in 1 .. Len(order) |-> <<order[j], buf[order[j]]>>],
                               LAMBDA e : e[2] # 0)
KeyOrders == {<<1, 2>>, <<2, 1>>}

BucketIdle(i) == bk[i].pc = "idle" /\ kop[i].pc = "idle"
BucketEvent(op, i, k, val) == [op |-> op, i |-> i, key |-> k, val |-> val]
\* inc calls made so far
IncsMade == bk[1].incs + bk[2].incs

\* CounterBucket::inc(key, value) through a live handle: memory only
inc(i, k, n) ==
    /\ BucketIdle(i)
    /\ bk[i].handles > 0
    /\ IncsMade < MaxIncs
    /\ buffer' = [buffer EXCEPT ![i] = buffer_inc(@, k, n)]
    /\ bk' = [bk EXCEPT ![i].incs = @ + 1,
                        ![i].given[k] = @ + n,
                        ![i].unflushed[k] = @ + n]
    /\ bev' = BucketEvent("inc", i, k, n)
    /\ UNCHANGED <<applied, stop, coreVars, kvVars>>

\* CounterBucket::get(key) through a live handle: one read of the store
bucket_get(i, k) ==
    /\ BucketIdle(i)
    /\ bk[i].handles > 0
    /\ bev' = BucketEvent("get", i, k, counter_get(i, k))
    /\ UNCHANGED <<applied, buffer, stop, bk, coreVars, kvVars>>

\* the end of flush, and of the turn of the background loop that called it:
\* the loop breaks if stop is set, otherwise it sleeps another second (the
\* new Timer is polled at once and is not ready)
FlushReturns(i, b, by) ==
    [b EXCEPT !.pc = "idle", !.by = "none", !.drained = <<>>, !.len = 0,
              !.task = IF by = "task" THEN (IF stop[i] THEN "done" ELSE "sleeping") ELSE @,
              !.expiry = IF by = "task" /\ ~stop[i] THEN clock + 1 ELSE @,
              !.flushes = IF by = "task" /\ b.stopped THEN @ + 1 ELSE @]

\* CounterBucket::flush: the buffer is drained into a list; an empty list
\* returns 0 with no host call made
FlushBegin(i, by, order) ==
    LET list == drain(buffer[i], order)
        b == [bk[i] EXCEPT !.pc = "flushing", !.by = by, !.drained = list,
                            !.len = Len(list),
                            !.unflushed = [k \in Keys |-> 0]]
    IN  /\ BucketIdle(i)
        /\ buffer' = [buffer EXCEPT ![i] = [k \in Keys |-> 0]]
        /\ bk' = [bk EXCEPT ![i] = IF list = <<>> THEN FlushReturns(i, b, by) ELSE b]
        /\ bev' = IF list = <<>> THEN BucketEvent("flush", i, 0, 0)
                   ELSE BucketEvent("drain", i, 0, Len(list))
        /\ UNCHANGED <<applied, stop, coreVars, kvVars>>

\* flush() called through a live handle
flush(i, order) ==
    /\ bk[i].handles > 0
    /\ FlushBegin(i, "call", order)

\* flush, the loop over the drained list: store.update(key, |old|
\* old.unwrap_or(0) + value) for the next entry, its result dropped; after the
\* last entry the number of entries is returned
FlushNext(i) ==
    /\ bk[i].pc = "flushing"
    /\ kop[i].pc = "idle"
    /\ IF bk[i].drained # <<>>
       THEN /\ BeginAdd(i, Head(bk[i].drained)[1], Head(bk[i].drained)[2])
            /\ bk' = [bk EXCEPT ![i].drained = Tail(@)]
            /\ bev' = BucketEvent("update", i, Head(bk[i].drained)[1], Head(bk[i].drained)[2])
            /\ UNCHANGED <<kvd, exps, clock, nops, swept>>
       ELSE /\ bk' = [bk EXCEPT ![i] = FlushReturns(i, bk[i], bk[i].by)]
            /\ bev' = BucketEvent("flush", i, 0, bk[i].len)
            /\ UNCHANGED kvVars
    /\ UNCHANGED <<applied, buffer, stop, coreVars>>

\* background_task polled with its Timer expired (a poll before that only
\* re-wakes the task): sleep(1 s) is over, flush is called
BackgroundPoll(i, order) ==
    /\ bk[i].task = "sleeping"
    /\ clock >= bk[i].expiry
    /\ FlushBegin(i, "task", order)

\* Drop for CounterBucket, run for a handle that goes away: stop is set
bucket_drop(i) ==
    /\ BucketIdle(i)
    /\ bk[i].handles > 0
    /\ stop' = [stop EXCEPT ![i] = TRUE]
    /\ bk' = [bk EXCEPT ![i].handles = @ - 1, ![i].stopped = TRUE]
    /\ bev' = BucketEvent("drop", i, 0, 0)
    /\ UNCHANGED <<applied, buffer, coreVars, kvVars>>

\* the calls of the buckets of the instances
NextBucket ==
    \/ \E i \in Instances, k \in Keys, n \in Deltas : inc(i, k, n)
    \/ \E i \in Instances, k \in Keys : bucket_get(i, k)
    \/ \E i \in Instances, order \in KeyOrders : flush(i, order)
    \/ \E i \in Instances :
          \/ FlushNext(i)
          \/ store_update_get(i) \/ store_update_set(i)
          \/ KvFault(i)
SpecBucket == Init /\ [][NextBucket]_vars

\* the background tasks of the buckets, fed by inc, until the handle is dropped
NextBucketTask ==
    \/ \E i \in Instances, k \in Keys, n \in Deltas : inc(i, k, n)
    \/ \E i \in Instances, order \in KeyOrders : BackgroundPoll(i, order)
    \/ \E i \in Instances :
          \/ FlushNext(i)
          \/ store_update_get(i) \/ store_update_set(i)
          \/ KvFault(i)
          \/ bucket_drop(i)
    \/ Tick
SpecBucketTask == Init /\ [][NextBucketTask]_vars

\* ------------------------------------------------------- claims, the bucket
\* C22: whenever no flush is in progress, the durable counter of every key
\* equals the sum of the increments the flushes of all instances have
\* written to it (those whose update returned Ok), however the flushes were
\* interleaved and also when the key had no durable value before them
C22_DurableIsSumOfFlushed ==
    (\A i \in Instances : BucketIdle(i)) => \A k \in Keys : kvd[k].val = applied[k]

\* C23: a get(k) of an instance returns the durable counter of k plus the sum
\* of the increments the instance made to k that no flush has drained yet,
\* after any sequence of inc, get and flush calls of any instances
C23_GetIsDurablePlusUnflushed ==
    /\ [](\A i \in Instances, k \in Keys : buffer[i][k] = bk[i].unflushed[k])
    /\ [][bev'.op = "get" /\ bev' # bev
            => bev'.val = kvd[bev'.key].val + bk[bev'.i].unflushed[bev'.key]]_vars

\* an instance incremented a key that holds a flushed durable value, and its
\* get returned the two together
C23_Witness ==
    \E i \in Instances, k \in Keys :
        /\ bev = BucketEvent("get", i, k, kvd[k].val + bk[i].unflushed[k])
        /\ kvd[k].val > 0
        /\ bk[i].unflushed[k] > 0

\* C24: while only one instance uses its bucket, whenever no flush of it is
\* in progress the durable counter of every key plus what the buffer holds
\* for it equals the sum of the increments made to it: each flush has grown
\* the durable counter by exactly the delta it drained and left get(k) as it
\* was
C24_FlushMovesBufferToStore ==
    \A i \in Instances :
        (/\ BucketIdle(i)
         /\ \A j \in Instances \ {i} : bk[j] = NoBucket /\ kop[j].pc = "idle")
            => \A k \in Keys : kvd[k].val + buffer[i][k] = bk[i].given[k]

\* C25: when the background loop of a bucket has terminated after a single
\* flush, made after the bucket was destroyed, and the other instance made no
\* increment, the durable counter of every key equals the sum of the
\* increments that were made to it: the final flush has moved every increment
\* buffered before the destruction into the store
C25_FinalFlushStoresAll ==
    \A i \in Instances :
        (/\ bk[i].task = "done"
         /\ bk[i].expiry = NoBucket.expiry
         /\ \A j \in Instances \ {i} : bk[j].incs = 0)
            => \A k \in Keys : kvd[k].val = bk[i].given[k]

\* ------------------------------------------------------- remove and gc
\* every key holds a value that was put at time 0 with a ttl of one second:
\* the index holds an entry for each
InitStored ==
    /\ shd = [s \in Slots |-> [store |-> StoreNew(0), cas |-> 1]]
    /\ pc = [t \in Tasks |-> "new"]
    /\ InitCore
    /\ kvd = [k \in Keys |-> [val |-> InitialValue, cas |-> 1]]
    /\ exps = [list |-> <<<<1, 1>>, <<1, 2>>>>, cas |-> 2]
    /\ clock = 0
    /\ kop = [i \in Instances |-> NoOp]
    /\ nops = 0
    /\ kev = NoKvEvent
    /\ kput = [k \in Keys |-> NoPut]
    /\ swept = {}
    /\ BucketInit

\* remove and gc calls, alone
NextRemove ==
    \/ \E i \in Instances, k \in Keys : remove(i, k)
    \/ \E i \in Instances :
          \/ gc(i)
          \/ expirations_update_get(i) \/ expirations_update_set(i)
          \/ store_remove_get(i) \/ store_remove_set(i)
          \/ KvFault(i)
    \/ Tick
SpecRemove == InitStored /\ [][NextRemove]_vars

\* instance i takes a step of the call it is in, or begins one
CallStepOf(i) == kop'[i].pc # kop[i].pc \/ kop'[i].expired # kop[i].expired

\* C26: no step of a remove(k) call changes the expirations index, and when
\* the call returns Ok the key holds no value; when a GC pass comes to a key
\* it popped that holds no value, its step (the host answering without a
\* fault) changes the value and version of no key and the pass reads the key
\* again, goes on to the next popped key or returns Ok
C26_RemoveThenGcNoOp ==
    /\ [][\A i \in Instances :
            (CallStepOf(i) /\ (kop[i].op = "remove" \/ kop'[i].op = "remove"))
               => /\ exps' = exps
                  /\ (kop'[i].pc = "idle" /\ kev'.res = "Ok")
                        => kvd'[kop[i].key].val = 0]_vars
    /\ [][\A i \in Instances :
            (/\ CallStepOf(i)
             /\ kop[i].op = "gc"
             /\ kop[i].pc \in {"rm_get", "rm_set"}
             /\ kvd[Head(kop[i].expired)].val = 0
             /\ kev'.res # "Status")
               => /\ kvd' = kvd
                  /\ \/ kop'[i].pc = "idle" /\ kev'.res = "Ok"
                     \/ /\ kop'[i].pc = "rm_get"
                        /\ kop'[i].expired \in {kop[i].expired, Tail(kop[i].expired)}]_vars

\* a GC pass has popped the entry of a key that a remove call had deleted
\* (the one write the key has had since it was put) and is about to remove it
C26_Witness ==
    \E i \in Instances :
        /\ kop[i].op = "gc"
        /\ kop[i].pc = "rm_get"
        /\ kvd[Head(kop[i].expired)] = [val |-> 0, cas |-> 2]
        /\ Len(kop[i].expired) = 2

\* ------------------------------------------------------- abandoned tasks
\* The future of a task that has not completed is dropped: the task is
\* abandoned.  Nothing it awaited is told: the Promise of its outbound call
\* stays in the pending table, in the state it had.
DropTask(t) ==
    /\ pc[t] \in {"call", "registered", "awaiting"}
    /\ Idle(InstOf(t))
    /\ pc' = [pc EXCEPT ![t] = "abandoned"]
    /\ ev' = [op |-> "drop_task", t |-> t, res |-> "none", s |-> ttoken[t], i |-> InstOf(t)]
    /\ UNCHANGED <<shd, notif, queueMap, readyQ, run, tslot, tstore, aborted, ninit, tries, prom, pendings, tres, ttoken, term, timer, kvVars, bucketVars>>

\* the drain pass comes to a task that was abandoned (it had been woken):
\* there is no future to poll, the pass goes on
DrainSkipsAbandoned(t) ==
    /\ Running(t)
    /\ pc[t] = "abandoned"
    /\ run' = PollReturns(t)
    /\ ev' = [op |-> "skip", t |-> t, res |-> "none", s |-> 0, i |-> InstOf(t)]
    /\ UNCHANGED <<shd, notif, queueMap, readyQ, pc, tslot, tstore, aborted, ninit, tries, prom, pendings, tres, ttoken, term, timer, kvVars, bucketVars>>

NextPromiseDrop ==
    \/ NextPromise
    \/ \E t \in Tasks : DropTask(t)
    \/ \E t \in Tasks : DrainSkipsAbandoned(t)

\* outbound calls of two tasks, their callbacks, and tasks abandoned in flight
SpecPromiseDrop == InitTwo /\ [][NextPromiseDrop]_vars

\* the step is a poll of a task: code of the task runs
TaskPolled == ev'.op \in {"http_call", "promise_poll", "finish"}

\* C27: a callback for a token whose Promise belongs to a task that was
\* abandoned removes the token's entry from the pending table, leaves every
\* other entry, every task, every other Promise, the results and the terminal
\* actions as they were, aborts no instance and polls nothing (at most the
\* abandoned task itself is put on the ready queue); and no abandoned task is
\* ever polled
C27_OrphanedCallbackDiscarded ==
    /\ [][\A i \in Instances, k \in Tokens :
            (CallbackOf(i, k) /\ pendings[i][k] # 0 /\ pc[pendings[i][k]] = "abandoned")
               => LET p == pendings[i][k] IN
                  /\ pendings' = [pendings EXCEPT ![i][k] = 0]
                  /\ pc' = pc /\ run' = run /\ aborted' = aborted
                  /\ tres' = tres /\ term' = term
                  /\ \A u \in Tasks \ {p} : prom'[u] = prom[u]
                  /\ readyQ' \in {readyQ, [readyQ EXCEPT ![i] = Append(@, p)]}]_vars
    /\ [][TaskPolled => pc[ev'.t] # "abandoned" /\ pc'[ev'.t] # "abandoned"]_vars

\* the callback of an abandoned task's call has come and resolved its Promise
\* (the task had been polled and had recorded its waker), while the other
\* task's call is still outstanding
C27_Witness ==
    \E t, u \in Tasks :
        /\ pc[t] = "abandoned"
        /\ ev.op = "http_response" /\ ev.t = t /\ ev.res = "resolved"
        /\ pendings[InstOf(t)][ttoken[t]] = 0
        /\ t # u /\ pc[u] = "awaiting" /\ pendings[InstOf(u)][ttoken[u]] = u

\* C28: a guard dropped when the slot is no longer at the version the guard's
\* acquisition left it at (some other write was accepted since) has its
\* conditional write rejected with CasMismatch: the slot keeps the value,
\* lock state and version the other writer gave it, and no queue notification
\* is sent
C28_ReleaseAfterOtherWriteRejected ==
    [][\A t \in Tasks :
          (Dropped(t) /\ shd[tslot[t]].cas # tstore[t].cas + 1)
             => /\ ev' = Event("release", t, "CasMismatch")
                /\ shd' = shd
                /\ notif' = notif]_vars

\* a guard has just been dropped after initial() had overwritten the slot:
\* the slot is as initial() left it
C28_Witness ==
    \E t \in Tasks :
        /\ ev = Event("release", t, "CasMismatch")
        /\ shd[tslot[t]].store = StoreNew(0)
        /\ shd[tslot[t]].cas = 3

\* the same with two contenders
SpecLockInitTwo == InitTwo /\ [][NextLockInit]_vars

\* ------------------------------------------------------- counting under the lock
\* A task whose body is  { let mut g = lock.lock().await?; *g += 1; }  : with
\* the guard it adds one to the protected value (DerefMut) and the guard is
\* dropped, in the same poll; set_and_unlock_shared_data writes the guard's
\* Store, Unlocked, with the version of the acquisition plus one
IncrementDrop(t, setFault) ==
    /\ Running(t)
    /\ pc[t] = "holding"
    /\ LET s == tslot[t]
           i == InstOf(t)
           store == [tstore[t] EXCEPT !.data = @ + 1]
           res == set_and_unlock_result(s, store, setFault, FALSE)
       IN  /\ shd' = IF set_and_unlock_writes(s, store, setFault)
                     THEN HostSet(s, turn_unlock(store)) ELSE shd
           /\ notif' = IF res = "Ok" THEN HostEnqueue(QueueOf(s)) ELSE notif
           /\ IF res \in {"Ok", "Noop"}
              THEN /\ pc' = [pc EXCEPT ![t] = "done"]
                   /\ run' = PollReturns(t)
                   /\ UNCHANGED aborted
              ELSE /\ pc' = [pc EXCEPT ![t] = "dead"]
                   /\ aborted' = [aborted EXCEPT ![i] = TRUE]
                   /\ UNCHANGED run
           /\ ev' = Event("release", t, res)
    /\ tstore' = [tstore EXCEPT ![t] = NoStore]
    /\ UNCHANGED <<queueMap, readyQ, tslot, ninit, tries, prom, pendings, tres, ttoken, term, timer, kvVars, bucketVars>>

IncrementRelease(t) == IncrementDrop(t, FALSE)
IncrementReleaseFault(t) == IncrementDrop(t, TRUE)

\* tasks of all instances that each take a lock, add one and release, the
\* host free to fail the reads and the writes
NextLockInc ==
    \/ \E t \in Tasks : Spawn(t)
    \/ \E i \in Instances : OnTick(i)
    \/ \E t \in Tasks : PollRead(t)
    \/ \E t \in Tasks : PollWrite(t)
    \/ \E t \in Tasks : Yield(t)
    \/ \E t \in Tasks : IncrementRelease(t)
    \/ \E i \in Instances, q \in Slots : OnQueueReady(i, q)
    \/ \E t \in Tasks : PollReadFault(t)
    \/ \E t \in Tasks : PollWriteFault(t)
    \/ \E t \in Tasks : IncrementReleaseFault(t)
SpecLockInc == Init /\ [][NextLockInc]_vars

\* the tasks that have taken the lock of slot s, added one and released it
Incremented(s) == {t \in Tasks : tslot[t] = s /\ pc[t] = "done"}

\* C29: the guard a poll returns holds the value the slot held when the poll
\* read it, which is the value the slot holds as the lock is taken; a release
\* the host accepts writes the guard's value, changes included, to the slot;
\* and so the protected value of a slot is always its initial value (0) plus
\* the number of tasks that have incremented it under the lock and released
C29_GuardCarriesValue ==
    /\ [](\A s \in Slots : shd[s].store.data = Cardinality(Incremented(s)))
    /\ [][\A t \in Tasks :
            /\ (pc[t] # "holding" /\ pc'[t] = "holding")
                  => /\ tstore'[t].data = shd[tslot[t]].store.data
                     /\ shd'[tslot[t]].store.data = shd[tslot[t]].store.data
            /\ (Dropped(t) /\ ev'.res = "Ok")
                  => shd'[tslot[t]].store = turn_unlock([tstore[t] EXCEPT !.data = @ + 1])]_vars

\* three tasks, of two instances, have each incremented the value of the
\* same slot, one of them after having been parked behind another
C29_Witness ==
    \E s \in Slots :
        /\ Incremented(s) = Tasks
        /\ shd[s].store.data = 3
        /\ \E t \in Tasks : tries[t] = 2

\* C30: also when instances call initial() at any time, no slot ever has two
\* live guards
C30_OneGuardDespiteInitial ==
    \A s \in Slots : \A t, u \in Guards(s) : t = u

\* ------------------------------------------------------- wake-ups
\* the fair scheduling of the lock, with instances that call initial() at
\* any time
NextLockInitLive == LiveStep \/ \E i \in Instances, s \in Slots : Initial(i, s)
SpecLockInitLive == InitTwo /\ [][NextLockInitLive]_vars /\ LockFairness

\* C31: a task that is parked on the queue of a lock whose slot is Unlocked
\* is eventually woken (it leaves the queue and polls again), whatever write
\* unlocked the slot
C31_NoLostWakeup ==
    \A t \in Tasks :
        (pc[t] = "parked" /\ ~is_locked(shd[tslot[t]].store)) ~> (pc[t] # "parked")

\* ------------------------------------------------------- what a GC pass removes
\* the keys of the entries of an index, in order
RECURSIVE KeysOf(_)
KeysOf(list) == IF list = <<>> THEN <<>> ELSE <<Head(list)[2]>> \o KeysOf(Tail(list))

\* instance i is in a GC pass: gc called on its own, or from enqueue_expires
GcPassOf(i) == kop[i].op \in {"gc", "enqueue_expires", "put"}

\* C32: the write of a GC pass that the host accepts removes a front part of
\* the index, all of whose entries have expired (expiry <= now), leaves the
\* entries behind it as they were, and the pass goes on to delete the keys of
\* exactly the entries that write removed; and when a GC pass deletes the
\* value of a key, the index holds no entry of that key that has not expired
\* (expiry > now): such entries and their values are unchanged
C32_GcRemovesExactlyExpired ==
    [][\A i \in Instances :
          /\ (GcPassOf(i) /\ kop[i].pc = "gc_set" /\ kop'[i].pc # "gc_set" /\ exps'.cas # exps.cas)
                => \E n \in 0 .. Len(exps.list) :
                      /\ exps'.list = SubSeq(exps.list, n + 1, Len(exps.list))
                      /\ \A j \in 1 .. n : exps.list[j][1] <= now
                      /\ exps.cas # 0 => \/ kop'[i].expired = KeysOf(SubSeq(exps.list, 1, n))
                                         \/ n = 0 /\ kop'[i].pc = "idle"
          /\ (GcPassOf(i) /\ kop[i].pc = "rm_set" /\ kvd' # kvd)
                => \A j \in 1 .. Len(exps.list) :
                      exps.list[j][2] = Head(kop[i].expired) => exps.list[j][1] <= now]_vars

\* C33: a get(k) made right after a put(k, v, ttl) has returned Ok (a put
\* during which no other instance was inside a call) and before the expiry
\* of that put (now < put_time + ttl) returns v, whatever entries earlier puts
\* of k left in the index: the GC passes that have run, the one inside the
\* put included, have not removed the key
C33_RePutKeepsValueUntilLatestExpiry ==
    [][(/\ kev.op = "put" /\ kev.res = "Ok" /\ kev.alone
        /\ kput[kev.key].id = kev.val /\ now < kput[kev.key].exp
        /\ kev'.op = "get" /\ kev'.key = kev.key)
          => kev'.res = kev.val]_vars

\* C34: a get(k) of an instance returns no less than the sum of the
\* increments that instance has made to k (the other instance making none),
\* also after flushes during which the durable update of k failed with a host
\* status: the delta of a failed update is still counted
C34_FailedFlushKeepsDelta ==
    (/\ bev.op = "get"
     /\ \A j \in Instances \ {bev.i} : bk[j].incs = 0)
        => bev.val >= bk[bev.i].given[bev.key]

\* ------------------------------------------------------- clones of a bucket
\* Clone for CounterBucket (derived): one more handle on the same Inner
bucket_clone(i) ==
    /\ BucketIdle(i)
    /\ bk[i].handles = NoBucket.handles
    /\ bk' = [bk EXCEPT ![i].handles = @ + 1]
    /\ bev' = BucketEvent("clone", i, 0, 0)
    /\ UNCHANGED <<applied, buffer, stop, coreVars, kvVars>>

\* the background tasks of buckets whose handle may be cloned (increments of
\* one, the host answering every call)
NextBucketClone ==
    \/ \E i \in Instances, k \in Keys : inc(i, k, 1)
    \/ \E i \in Instances : BackgroundPoll(i, <<1, 2>>)
    \/ \E i \in Instances :
          \/ FlushNext(i)
          \/ store_update_get(i) \/ store_update_set(i)
          \/ bucket_drop(i)
          \/ bucket_clone(i)
    \/ Tick
SpecBucketClone == Init /\ [][NextBucketClone]_vars

\* C35: while a handle of a bucket is alive its stop flag is not set and its
\* background task has not ended: dropping one clone while another remains
\* does not stop the flushing
C35_TaskRunsWhileHandleAlive ==
    \A i \in Instances :
        bk[i].handles > 0 => ~stop[i] /\ bk[i].task # "done"

\* C36: every key that holds a durable counter has an entry in the
\* expirations index: what flush writes is registered for garbage collection
C36_CounterKeysRegistered ==
    \A k \in Keys :
        kvd[k].val # 0 => \E j \in 1 .. Len(exps.list) : exps.list[j][2] = k

\* ================================================================ Timer
\* what a sleep may be given, in seconds
Durations == 0 .. MaxTime

\* Timer::new, called by sleep(duration)
TimerNew(duration) == [live |-> TRUE, expiry |-> now + duration, pended |-> FALSE]

\* (mutant) the Timer is ready a second before its expiry
timer_poll_early(tm) ==
    IF now + 1 >= tm.expiry
    THEN [ready |-> TRUE, wake |-> FALSE]
    ELSE [ready |-> FALSE, wake |-> TRUE]

\* Timer::poll: Ready from the expiry on; before it the waker of the polling
\* task is invoked (wake_by_ref) and Pending is returned
timer_poll(tm) ==
    IF now >= tm.expiry
    THEN [ready |-> TRUE, wake |-> FALSE]
    ELSE [ready |-> FALSE, wake |-> TRUE]

\* HookHolder::on_http_request_headers: the hook is spawned as a task whose
\* body awaits a sleep
SpawnSleep(t) ==
    /\ pc[t] = "new"
    /\ Idle(InstOf(t))
    /\ pc' = [pc EXCEPT ![t] = "timer"]
    /\ readyQ' = [readyQ EXCEPT ![InstOf(t)] = Append(@, t)]
    /\ ev' = [op |-> "spawn", t |-> t, res |-> "Pause", s |-> 0, i |-> InstOf(t)]
    /\ UNCHANGED <<shd, notif, queueMap, run, tslot, tstore, aborted, ninit, tries, prom, pendings, tres, ttoken, term, timer, kvVars, bucketVars>>

\* a poll of the task that awaits Timer tm: the task goes on when the Timer is
\* Ready; otherwise it stays suspended, woken by the poll itself
TimerAwait(t, tm) ==
    LET r == timer_poll(tm)
    IN  /\ timer' = [timer EXCEPT ![t] = [tm EXCEPT !.pended = @ \/ ~r.ready]]
        /\ pc' = [pc EXCEPT ![t] = IF r.ready THEN "slept" ELSE "sleeping"]
        /\ run' = PollReturns(t)
        /\ readyQ' = IF r.wake THEN [readyQ EXCEPT ![InstOf(t)] = WakeAll(@, <<t>>)]
                     ELSE readyQ
        /\ ev' = Event("timer_poll", t, IF r.ready THEN "Ready" ELSE "Pending")
        /\ UNCHANGED <<shd, notif, queueMap, tslot, tstore, aborted, ninit, tries, prom, pendings, tres, ttoken, term, kvVars, bucketVars>>

\* the first poll of the task: sleep(duration) makes the Timer, .await polls it
Sleep(t, duration) ==
    /\ Running(t)
    /\ pc[t] = "timer"
    /\ TimerAwait(t, TimerNew(duration))

\* a later poll of the task: the Timer it awaits is polled again
TimerPoll(t) ==
    /\ Running(t)
    /\ pc[t] = "sleeping"
    /\ TimerAwait(t, timer[t])

NextTimer ==
    \/ \E t \in Tasks : SpawnSleep(t)
    \/ \E i \in Instances : OnTick(i)
    \/ \E t \in Tasks, d \in Durations : Sleep(t, d)
    \/ \E t \in Tasks : TimerPoll(t)
    \/ Tick
\* tasks that sleep, while time passes
SpecTimer == Init /\ [][NextTimer]_vars

\* this step is a poll of the Timer of task t
TimerStepOf(t) ==
    /\ Running(t)
    /\ pc[t] \in {"timer", "sleeping"}
    /\ run'[InstOf(t)] # run[InstOf(t)]

\* C37: a poll of a Timer returns Ready exactly when the clock has reached the
\* Timer's expiry, which never changes; a poll before the expiry returns
\* Pending and leaves the task in the ready queue, so that the next drain pass
\* polls it again; a task that sleeps is queued at all times
C37_TimerReadyFromExpiryOn ==
    /\ [](\A t \in Tasks :
            /\ pc[t] = "slept" => timer[t].live /\ now >= timer[t].expiry
            /\ pc[t] = "sleeping" =>
                  \/ InSeq(t, readyQ[InstOf(t)])
                  \/ InSeq(t, run[InstOf(t)]))
    /\ [][\A t \in Tasks :
            TimerStepOf(t) =>
                /\ timer'[t].live
                /\ pc[t] = "sleeping" => timer'[t].expiry = timer[t].expiry
                /\ pc[t] = "timer" => timer'[t].expiry - now \in Durations
                /\ pc'[t] = (IF now >= timer'[t].expiry THEN "slept" ELSE "sleeping")
                /\ pc'[t] = "sleeping" => InSeq(t, readyQ'[InstOf(t)])]_vars

\* a task polled before the expiry of its Timer, and again from it on
C37_Witness ==
    \E t \in Tasks :
        /\ pc[t] = "slept" /\ timer[t].pended
        /\ ev.op = "timer_poll" /\ ev.t = t /\ ev.res = "Ready"

\* C38: the Promise of every entry of the pending table is Pending (in an
\* instance that panicked on a duplicate token, the entry of that token is
\* the Promise http_call had made and did not get to return, which no task has)
C38_PendingTableHoldsPending ==
    \A i \in Instances, k \in Tokens :
        pendings[i][k] # 0 =>
            \/ prom[pendings[i][k]].st = "Pending"
            \/ /\ aborted[i]
               /\ prom[pendings[i][k]].st = "None"
               /\ pc[pendings[i][k]] = "dead"

\* a call is in the table, Pending, while the Promise of another call has been
\* resolved and is in the table no more
C38_Witness ==
    \E t \in Tasks, u \in Tasks :
        /\ ttoken[t] # 0 /\ pendings[InstOf(t)][ttoken[t]] = t
        /\ prom[t].st = "Pending"
        /\ ttoken[u] # 0 /\ prom[u].st = "Resolved"
        /\ \A i \in Instances, k \in Tokens : pendings[i][k] # u

\* ------------------------------------------- a slot nobody has initialised
\* Two contenders; slot 1 is initialised and slot 2 was never written: the
\* host has neither a value nor a version for it
InitFresh ==
    /\ shd = [s \in Slots |-> IF s = 1 THEN [store |-> StoreNew(0), cas |-> 1]
                              ELSE [store |-> NoStore, cas |-> 0]]
    /\ \E o \in Tasks : pc = [t \in Tasks |-> IF t = o THEN "off" ELSE "new"]
    /\ InitRest
\* lock() on either slot, with instances that call initial() at any time
SpecLockFresh == InitFresh /\ [][NextLockInit]_vars

\* the slot was never written
SlotAbsent(s) == shd[s].cas = 0
\* this step is the first half of a poll of the TryLock of task t
ReadStepOf(t) == Running(t) /\ pc[t] = "ready" /\ tries'[t] # tries[t]

\* C39: a poll of lock() on a slot that was never written returns
\* Ready(Err(Status)) at once: the task is not parked, nothing is written to
\* the slot and no lock state is kept; so a slot never written has no waiter
\* and no guard
C39_UninitialisedSlotFails ==
    /\ [](\A s \in Slots :
            SlotAbsent(s) =>
                /\ \A i \in Instances : queueMap[i][QueueOf(s)] = <<>>
                /\ \A t \in Tasks :
                      tslot[t] = s => pc[t] \notin {"parked", "write", "holding"})
    /\ [][\A t \in Tasks :
            (ReadStepOf(t) /\ SlotAbsent(tslot[t])) =>
                /\ pc'[t] = "failed"
                /\ ev' = Event("poll", t, "Status")
                /\ run' = PollReturns(t)
                /\ UNCHANGED <<shd, queueMap, tstore, readyQ, notif>>]_vars

\* a task whose lock() on the slot never written has returned the error
C39_Witness ==
    \E t \in Tasks :
        /\ pc[t] = "failed" /\ SlotAbsent(tslot[t])
        /\ ev = Event("poll", t, "Status")

\* ------------------------------------------- a Promise and whoever polls it
\* A Promise (a clone of the handle) may be polled by any task of its
\* instance.  Promise p, the one made for task p, is polled with the waker of
\* task w.
PromisePollBy(p, w) ==
    /\ InstOf(w) = InstOf(p)
    /\ ~aborted[InstOf(p)]
    /\ prom[p].st # "None"
    /\ LET r == promise_poll(prom[p], w)
       IN  /\ prom' = [prom EXCEPT ![p] = r.state]
           /\ tres' = IF r.res \in {"Ok", "Err"}
                      THEN [tres EXCEPT ![w] = [kind |-> r.res, resp |-> r.resp]]
                      ELSE tres
           /\ aborted' = IF r.res = "Panic" THEN [aborted EXCEPT ![InstOf(p)] = TRUE]
                         ELSE aborted
           /\ ev' = [op |-> "promise_poll", t |-> p, res |-> r.res, s |-> w, i |-> InstOf(p)]
    /\ UNCHANGED <<shd, notif, queueMap, readyQ, run, pc, tslot, tstore, ninit, tries, pendings, ttoken, term, timer, kvVars, bucketVars>>

\* Promise::pending: the Promise for task p is made
PromiseMake(p) ==
    /\ ~aborted[InstOf(p)]
    /\ prom[p].st = "None"
    /\ prom' = [prom EXCEPT ![p] = PromisePending]
    /\ ev' = [op |-> "promise_pending", t |-> p, res |-> "none", s |-> 0, i |-> InstOf(p)]
    /\ UNCHANGED <<shd, notif, queueMap, readyQ, run, pc, tslot, tstore, aborted, ninit, tries, pendings, tres, ttoken, term, timer, kvVars, bucketVars>>

\* Promise::resolve(response) and Promise::reject() on Promise p
PromiseSettle(p, r) ==
    /\ ~aborted[InstOf(p)]
    /\ prom[p].st # "None"
    /\ IF r.headers = 0
       THEN /\ prom' = [prom EXCEPT ![p] = reject(prom[p]).state]
            /\ ev' = [op |-> "promise_reject", t |-> p, res |-> "none", s |-> 0, i |-> InstOf(p)]
       ELSE /\ prom' = [prom EXCEPT ![p] = resolve(prom[p], r).state]
            /\ ev' = [op |-> "promise_resolve", t |-> p, res |-> "none",
                      s |-> resolve(prom[p], r).wake, i |-> InstOf(p)]
    /\ UNCHANGED <<shd, notif, queueMap, readyQ, run, pc, tslot, tstore, aborted, ninit, tries, pendings, tres, ttoken, term, timer, kvVars, bucketVars>>

NextPromisePoll ==
    \/ \E p \in Tasks : PromiseMake(p)
    \/ \E p \in Tasks, w \in Tasks : PromisePollBy(p, w)
    \/ \E p \in Tasks, r \in HostResponses : PromiseSettle(p, r)
\* the methods of Promise, called in any order
SpecPromisePoll == Init /\ [][NextPromisePoll]_vars

\* C40: a poll of a Pending Promise returns Pending and leaves the Promise
\* Pending; it records the waker of the poller if the Promise had none, and
\* leaves the recorded waker as it is otherwise; nothing else changes
C40_PendingPollFirstWakerWins ==
    [][\A p \in Tasks :
          (prom[p].st = "Pending" /\ ev'.op = "promise_poll" /\ ev'.t = p) =>
              /\ ev'.res = "Pending"
              /\ prom' = [prom EXCEPT ![p].waker = IF @ = 0 THEN ev'.s ELSE @]
              /\ UNCHANGED <<tres, aborted>>]_vars

\* a Pending Promise that has the waker of its first poller after a poll by
\* another task
C40_Witness ==
    /\ ev.op = "promise_poll" /\ ev.res = "Pending"
    /\ prom[ev.t].st = "Pending"
    /\ prom[ev.t].waker \notin {0, ev.s}

====
